---- MODULE Spec2Model ----
(***************************************************************************)
(* Beat-reactive starfield: the PulsationManager (pulsationManager.ts),    *)
(* calculateEnergy and the BeatDetector (useFakeBeatDetection.ts),         *)
(* selectStars and the AudioAnalysisProvider with its analysis loop.       *)
(*                                                                         *)
(* JavaScript numbers are modelled as exact rationals [num, den] in lowest *)
(* terms with den > 0.  Math.sqrt is exact when the root is rational and   *)
(* is otherwise rounded down to a multiple of 1/SqrtScale.  Timestamps are *)
(* whole milliseconds.                                                     *)
(***************************************************************************)
EXTENDS Integers, Sequences, FiniteSets, TLC

----------------------------------------------------------------------------
(* Bounds of the model *)

\* largest configured maxConcurrentPulsations
MaxCap == 2
\* timestamps handed to the PulsationManager are 0, 100, .. 100 * MaxTimeStep
MaxTimeStep == 2
\* largest configured historySize of a BeatDetector
MaxHistorySize == 2
\* detectBeat/updateHistory calls between two resets
MaxCalls == 3
\* largest timestamp handed to detectBeat
MaxTimestamp == 4
\* Math.sqrt of an irrational root is rounded down to 1/SqrtScale
SqrtScale == 1000
\* longest frequency snapshot handed to calculateEnergy on its own
MaxBins == 12
\* longest particle list handed to selectStars
MaxParticles == 3
\* Math.random() returns a multiple of 1/RandomSteps in [0, 1)
RandomSteps == 4
\* analysis ticks of one provider
MaxTicks == 3
\* performance.now() advances by FrameMs from one analysis tick to the next
FrameMs == 100
\* upper bound on the animation frames of StarfieldBackground, 100 ms apart
MaxFrames == 4
\* upper bound on the writes to one object returned by getState
MaxWrites == 2

----------------------------------------------------------------------------
(* Exact arithmetic on JavaScript numbers *)

Abs(n) == IF n < 0 THEN -n ELSE n

RECURSIVE Gcd(_, _)
Gcd(a, b) == IF b = 0 THEN a ELSE Gcd(b, a % b)

\* the rational n/d (d # 0) in lowest terms
Rat(n, d) ==
    LET g == Gcd(Abs(n), Abs(d))
        s == IF d < 0 THEN -1 ELSE 1
    IN  [num |-> (s * n) \div g, den |-> (s * d) \div g]

RInt(n) == [num |-> n, den |-> 1]
RAdd(x, y) == Rat(x.num * y.den + y.num * x.den, x.den * y.den)
RSub(x, y) == Rat(x.num * y.den - y.num * x.den, x.den * y.den)
RMul(x, y) == Rat(x.num * y.num, x.den * y.den)
RDiv(x, y) == Rat(x.num * y.den, x.den * y.num)
RLt(x, y) == x.num * y.den < y.num * x.den
RLe(x, y) == x.num * y.den <= y.num * x.den
RGt(x, y) == RLt(y, x)
RGe(x, y) == RLe(y, x)
\* Math.min / Math.max
RMin(x, y) == IF RLt(y, x) THEN y ELSE x
RMax(x, y) == IF RLt(x, y) THEN y ELSE x

\* the largest r in lo..hi with r * r <= n, by bisection
RECURSIVE ISqrtIn(_, _, _)
ISqrtIn(n, lo, hi) ==
    IF lo >= hi THEN lo
    ELSE LET mid == (lo + hi + 1) \div 2
         IN  IF mid * mid <= n THEN ISqrtIn(n, mid, hi) ELSE ISqrtIn(n, lo, mid - 1)

\* floor of the square root of a natural number n whose root is at most hi
ISqrt(n, hi) == ISqrtIn(n, 0, hi)

IsSquare(n) == ISqrt(n, n) * ISqrt(n, n) = n

\* Math.sqrt of a rational x >= 0
RSqrt(x) ==
    IF IsSquare(x.num) /\ IsSquare(x.den)
    THEN Rat(ISqrt(x.num, x.num), ISqrt(x.den, x.den))
    ELSE Rat(ISqrt((x.num * SqrtScale * SqrtScale) \div x.den,
                   SqrtScale * ((x.num \div x.den) + 1)),
             SqrtScale)

----------------------------------------------------------------------------
(* State *)

VARIABLES
    \* PulsationManager.pulsations: the Map in insertion order, a sequence of
    \* PulsationState records
    pulsations,
    \* PulsationManager.maxConcurrentPulsations (readonly, set by the constructor)
    maxConcurrentPulsations,
    \* the last PulsationManager call: [op, particleId, currentTime]
    pmCall,
    \* the pulsations map as it was when the last call began
    pmBefore,
    \* what the last PulsationManager call returned
    pmRet,
    \* BeatDetector.state: [energyHistory, lastBeatTime, averageEnergy, varianceEnergy]
    state,
    \* BeatDetector.historySize, thresholdMultiplier, debounceMs (readonly)
    historySize,
    thresholdMultiplier,
    debounceMs,
    \* the last BeatDetector call: [op, energy, timestamp]
    bdCall,
    \* what the last BeatDetector call returned: <<>> for null, <<strength>>
    bdRet,
    \* every energy handed to updateHistory since construction or the last reset
    arrivals,
    \* the timestamps of the beats emitted since construction or the last reset
    beats,
    \* the state of a second detector, constructed with the same configuration
    \* when the first was last reset and given the same calls since
    fresh,
    \* what the last call returned on the second detector
    freshRet,
    \* TRUE when the last reset was applied to a detector that had emitted a beat
    reused,
    \* the snapshot last handed to calculateEnergy and what it returned
    ceData,
    ceEnergy,
    \* the snapshot handed to calculateEnergy before that and what it returned
    cePrevData,
    cePrevEnergy,
    \* the arguments of selectStars: particles (a sequence of [id, size]),
    \* beatStrength and config
    ssParticles,
    ssBeatStrength,
    ssConfig,
    \* whether selectStars has returned, and the array it returned
    ssCalled,
    ssSelected,
    \* what Math.random() returned in each iteration of the sampling loop
    ssDraws,
    \* AudioAnalysisProvider: its refs and React state, a record
    \* [isWebAudioSupported, audioElement, audioContext, analyser, beatCallbacks,
    \*  beatDetector, animationFrameId, frequencyData, audioErrorHandler,
    \*  isAnalyzing, error]; a ref is FALSE/Null for null; beatCallbacks is the
    \* Set in insertion order; beatDetector is <<state>>
    provider,
    \* the host's frame scheduler: the ids of the requested frames not yet run
    frames,
    \* whether the provider is mounted
    mounted,
    \* audioElement.paused || audioElement.ended of the audio element
    audioPaused,
    \* performance.now()
    now,
    \* the callbacks handed to onBeat whose unsubscribe function has not been
    \* called since
    subscribed,
    \* TRUE from unregisterAudioElement or unmount to the next registerAudioElement
    stopped,
    \* the last provider step: [op, detected, strength, invoked, thrower,
    \* subscribedBefore, stoppedBefore]
    aaLast,
    \* the detector, the listeners notified and the frames of the last analysis
    \* tick had its throwing listener returned instead
    aaTwin,
    \* the props of AudioAnalysisProvider: [pulsationIntensity, selectionPercentage]
    ctxProps,
    \* which of the two StarfieldBackground components of part_002 is built
    sfVariant,
    \* container.particles.array: a sequence of [id, size, originalSize], size
    \* being size.value and originalSize being <<_originalSize>>, <<>> when unset
    sfParticles,
    \* decayingParticlesRef.current: a function from particle ids to originalSize
    sfDecaying,
    \* performance.now() in StarfieldBackground
    sfNow,
    \* whether the animation frame of this instant has run
    sfFramed,
    \* for each particle id <<the size handed to the startPulsation call that
    \* created its last entry>>, <<>> before its first pulsation
    sfBase,
    \* the last StarfieldBackground step: [op, strength, config, intensity,
    \* adjustedStrength, selected]
    sfLast,
    \* for each particle id the arguments [beatStrength, originalSize,
    \* currentTime] of the startPulsation call that created its last entry
    pmArgs,
    \* the object the last getState() returned: [taken, sameObject, sameHistory,
    \* writes, energyHistory, lastBeatTime, averageEnergy, varianceEnergy], sameObject
    \* and sameHistory telling whether it, or its energyHistory array, is the
    \* detector's own; energyHistory holds the array's contents when it is not,
    \* writes counts the writes of its holder
    bdView,
    \* the FakeBeatDetector: [bpm, isRunning, intervalId, callbacks], intervalId
    \* being <<id>> or <<>> (null) and callbacks the Set in insertion order
    fake,
    \* the interval timers of the host that have not been cleared: a set of
    \* [id, intervalMs]
    timers,
    \* the last FakeBeatDetector step: [op, runningBefore, timersBefore,
    \* strength, invoked, events], invoked the callbacks an interval tick called
    \* and events the 'musicbeat' events it dispatched
    fbLast,
    \* MusicDisc: [isPlaying, currentTrack, element, resumable, error],
    \* currentTrack being <<bpm>> or <<>>, element the state of the audio
    \* element ("idle", "loading", "playing", "paused"), resumable its
    \* src && currentTime > 0 and error the message shown ("" for none)
    disc,
    \* the promises audio.play() returned that have not settled: a set of
    \* [kind, bpm], kind "track" from playTrack and "resume" from toggle
    plays

pmVars == <<pulsations, maxConcurrentPulsations, pmCall, pmBefore, pmRet>>

bdVars == <<state, historySize, thresholdMultiplier, debounceMs, bdCall, bdRet,
            arrivals, beats, fresh, freshRet, reused>>

ceVars == <<ceData, ceEnergy, cePrevData, cePrevEnergy>>

ssVars == <<ssParticles, ssBeatStrength, ssConfig, ssCalled, ssSelected, ssDraws>>

aaVars == <<provider, frames, mounted, audioPaused, now, subscribed, stopped,
            aaLast, aaTwin>>

fbVars == <<fake, timers, fbLast>>

mdVars == <<disc, plays>>

sfVars == <<ctxProps, sfVariant, sfParticles, sfDecaying, sfNow, sfFramed, sfBase,
            sfLast>>

vars == <<pmVars, bdVars, ceVars, ssVars, aaVars, sfVars, pmArgs, bdView, fbVars, mdVars>>

\* what a call on one component leaves alone
exceptPM == <<bdVars, ceVars, ssVars, aaVars, sfVars, pmArgs, bdView, fbVars, mdVars>>
exceptBD == <<pmVars, ceVars, ssVars, aaVars, sfVars, pmArgs, bdView, fbVars, mdVars>>
exceptCE == <<pmVars, bdVars, ssVars, aaVars, sfVars, pmArgs, bdView, fbVars, mdVars>>
exceptSS == <<pmVars, bdVars, ceVars, aaVars, sfVars, pmArgs, bdView, fbVars, mdVars>>

----------------------------------------------------------------------------
(* Inputs *)

\* particle ids; the empty string is a string like any other
ParticleIds == {"", "a", "b"}
\* timestamps (performance.now(), ms)
Times == {100 * k : k \in 0..MaxTimeStep}
\* beat strengths handed to startPulsation, in and out of [0,1]
BeatStrengths == {Rat(-1, 2), Rat(3, 2)}
\* particle sizes
Sizes == {RInt(3)}
\* configured concurrency caps
Caps == 1..MaxCap

\* the value a call without a result returns
Undefined == <<"undefined">>

\* frequency snapshots (Uint8Array): no bins (energy 0), two bins (energy 1/2)
\* and twelve bins at full scale (energy 1)
Snapshots == {<<>>, <<255, 0>>, [i \in 1..12 |-> 255]}
\* timestamps handed to detectBeat
Timestamps == 0..MaxTimestamp
\* configured history sizes, threshold multipliers and debounce windows
\* snapshots handed to calculateEnergy on its own: no bins, one bin, and up to
\* MaxBins bins around the bass range, every bin at `rest` but one `odd` bin
SampleValues == {0, 128, 255}
SnapshotLengths == {0, 1} \cup (10..MaxBins)
EnergySnapshots ==
    {[i \in 1..n |-> IF i = k THEN odd ELSE rest] :
        n \in SnapshotLengths, k \in {1, 11, 12, MaxBins},
        odd \in SampleValues, rest \in SampleValues}
HistorySizes == 1..MaxHistorySize

\* particle lists handed to selectStars: distinct ids, sizes that weigh nothing
\* (negative, zero) and sizes that weigh something
StarIds == <<"a", "b", "c", "d", "e">>
StarSizes == {RInt(0), RInt(1), RInt(2)}
ParticleLists ==
    UNION {{[i \in 1..n |-> [id |-> StarIds[i], size |-> sizes[i]]] :
               sizes \in [1..n -> StarSizes]} : n \in 0..MaxParticles}
    \cup {<<[id |-> "a", size |-> RInt(2)], [id |-> "b", size |-> RInt(4)]>>}
    \cup UNION {{[i \in 1..n |-> [id |-> StarIds[i], size |-> sizes[i]]] :
                    sizes \in [1..n -> {RInt(-1), RInt(0)}]} : n \in 1..MaxParticles}
\* beat strengths handed to selectStars, in and out of [0,1]
SelectStrengths == {Rat(-1, 2), Rat(1, 2), Rat(3, 2)}
\* the default config, the config StarfieldBackground derives from a
\* selectionPercentage of 1, and one that selects two stars of three
SelectionConfigs ==
    {[minSelectionPercent |-> Rat(1, 20), maxSelectionPercent |-> Rat(3, 20),
      sizeWeightExponent |-> 2],
     [minSelectionPercent |-> Rat(1, 2), maxSelectionPercent |-> Rat(3, 2),
      sizeWeightExponent |-> 2],
     [minSelectionPercent |-> Rat(1, 2), maxSelectionPercent |-> RInt(1),
      sizeWeightExponent |-> 1]}
\* beat listeners: the one StarfieldBackground subscribes and another
Callbacks == {"starfield", "other"}
\* what a listener does when it is invoked: return, throw, call
\* unregisterAudioElement, call the unsubscribe function of a listener, or
\* call that and subscribe the listener again
Behaviours ==
    {[kind |-> k, target |-> ""] : k \in {"return", "throw", "unregister"}}
    \cup {[kind |-> k, target |-> c] :
             k \in {"unsubscribe", "resubscribe"}, c \in Callbacks}
\* the frequency data the analyser delivers: silence or full scale
AnalyserSnapshots == {<<0, 0>>, [i \in 1..12 |-> 255]}
\* how registerAudioElement ends: it completes, or createMediaElementSource throws
RegisterOutcomes == {"ok", "throws"}
\* the particle StarfieldBackground pulsates on a beat
StarfieldParticle == [id |-> "a", size |-> RInt(1)]
\* beat strengths handed to startPulsation: below, inside and above [0,1]
WideStrengths == {Rat(-1, 2), Rat(1, 2), Rat(3, 2)}
\* the particles startPulsation is called for
WideIds == {"a", "b"}
\* particle sizes handed to startPulsation
WideSizes == {Rat(1, 2), RInt(3)}
\* the props a host gives AudioAnalysisProvider: the defaults, values below 0
\* and above 1, and a selectionPercentage of 1
ProviderProps ==
    {[pulsationIntensity |-> RInt(1), selectionPercentage |-> Rat(1, 10)],
     [pulsationIntensity |-> RInt(-1), selectionPercentage |-> RInt(-1)],
     [pulsationIntensity |-> RInt(2), selectionPercentage |-> RInt(1)]}
\* the particles of the container
StarfieldParticles ==
    <<[id |-> "a", size |-> RInt(1), originalSize |-> <<>>],
      [id |-> "b", size |-> RInt(2), originalSize |-> <<>>]>>
\* the strengths a beat listener is notified with
ListenerStrengths == {Rat(1, 2), RInt(1)}
\* the instants of performance.now() at which StarfieldBackground runs
StarTimes == {100 * k : k \in 0..MaxFrames}

\* the values Math.random() returns
RandomValues == {Rat(k, RandomSteps) : k \in 0..(RandomSteps - 1)}
Multipliers == {Rat(1, 4), RInt(1), Rat(13, 10)}
Debounces == {2}

----------------------------------------------------------------------------
(* PulsationManager: the Map *)

\* Map.has
Has(m, id) == \E i \in 1..Len(m) : m[i].particleId = id

\* Map.get of a key that is present
Get(m, id) == m[CHOOSE i \in 1..Len(m) : m[i].particleId = id]

\* Map.delete
Delete(m, id) == SelectSeq(m, LAMBDA s : s.particleId # id)

\* the keys of the Map
Keys(m) == {m[i].particleId : i \in 1..Len(m)}

\* `state.startTime < oldestTime`, oldestTime being <<>> for Infinity
StartsBefore(startTime, oldestTime) ==
    oldestTime = <<>> \/ startTime < oldestTime[1]

\* the loop that finds the oldest pulsation, from entry i on
RECURSIVE FindOldest(_, _, _, _)
FindOldest(m, i, oldestTime, oldestId) ==
    IF i > Len(m) THEN oldestId
    ELSE IF StartsBefore(m[i].startTime, oldestTime)
         THEN FindOldest(m, i + 1, <<m[i].startTime>>, m[i].particleId)
         ELSE FindOldest(m, i + 1, oldestTime, oldestId)

\* `if (oldestId)`: a string is truthy unless it is empty
Truthy(id) == id # ""

\* the eviction at the concurrency cap
EvictOldest(m, cap) ==
    IF Len(m) >= cap
    THEN LET oldestId == FindOldest(m, 1, <<>>, "")
         IN  IF Truthy(oldestId) THEN Delete(m, oldestId) ELSE m
    ELSE m

\* the PulsationState that startPulsation creates
\* an entry derived from the beat strength as it is given
NewPulsationUnclamped(particleId, beatStrength, originalSize, currentTime) ==
    [particleId   |-> particleId,
     startTime    |-> currentTime,
     duration     |-> RAdd(RInt(200), RMul(beatStrength, RInt(200))),
     peakScale    |-> RAdd(Rat(3, 2), RMul(beatStrength, Rat(1, 2))),
     originalSize |-> originalSize]

NewPulsation(particleId, beatStrength, originalSize, currentTime) ==
    LET clampedBeatStrength == RMax(RInt(0), RMin(RInt(1), beatStrength))
    IN  [particleId   |-> particleId,
         startTime    |-> currentTime,
         duration     |-> RAdd(RInt(200), RMul(clampedBeatStrength, RInt(200))),
         peakScale    |-> RAdd(Rat(3, 2), RMul(clampedBeatStrength, Rat(1, 2))),
         originalSize |-> originalSize]

\* startPulsation without the guard against restarting
RestartPulsation(m, cap, particleId, beatStrength, originalSize, currentTime) ==
    Append(EvictOldest(Delete(m, particleId), cap),
           NewPulsation(particleId, beatStrength, originalSize, currentTime))

\* a startPulsation that first drops the entries whose duration has elapsed
StartPulsationExpiring(m, cap, particleId, beatStrength, originalSize, currentTime) ==
    LET live == SelectSeq(m, LAMBDA e :
                    ~RGe(RInt(currentTime - e.startTime), e.duration))
    IN  IF Has(live, particleId) THEN live
        ELSE Append(EvictOldest(live, cap),
                    NewPulsation(particleId, beatStrength, originalSize, currentTime))

\* the map after startPulsation
StartPulsationMap(m, cap, particleId, beatStrength, originalSize, currentTime) ==
    IF Has(m, particleId) THEN m
    ELSE Append(EvictOldest(m, cap),
                NewPulsation(particleId, beatStrength, originalSize, currentTime))

\* Math.sin(progress * Math.PI) for 0 <= progress <= 1, by Bhaskara's formula
\* 16p(1-p) / (5 - 4p(1-p)): exact at 0, 1/6, 1/2, 5/6 and 1, within 0.002 elsewhere
SinPi(progress) ==
    LET q == RMul(progress, RSub(RInt(1), progress))
    IN  RDiv(RMul(RInt(16), q), RSub(RInt(5), RMul(RInt(4), q)))

\* a scale that rises in a straight line to the peak at the end
CalculateScaleLinear(progress, peakScale) ==
    RAdd(RInt(1), RMul(RSub(peakScale, RInt(1)), progress))

\* calculateScale
CalculateScale(progress, peakScale) ==
    RAdd(RInt(1), RMul(RSub(peakScale, RInt(1)), SinPi(progress)))

\* elapsed >= state.duration
Complete(s, currentTime) == RGe(RInt(currentTime - s.startTime), s.duration)

\* a test that takes an entry that is not yet due for one in progress
NotComplete(s, currentTime) == ~Complete(s, currentTime)

\* the entries updatePulsations reports: started and not complete
InProgress(s, currentTime) ==
    currentTime - s.startTime >= 0 /\ ~Complete(s, currentTime)

\* the Map<string, number> updatePulsations returns, as a function on its keys
ScaleMultipliers(m, currentTime) ==
    LET live == SelectSeq(m, LAMBDA s : InProgress(s, currentTime))
    IN  [id \in Keys(live) |->
            LET s == Get(live, id)
            IN  CalculateScale(RDiv(RInt(currentTime - s.startTime), s.duration),
                               s.peakScale)]

\* a cleanup that keeps the entries in progress only
CleanupNotInProgress(m, currentTime) ==
    SelectSeq(m, LAMBDA s : InProgress(s, currentTime))

\* the map after cleanup
CleanupMap(m, currentTime) == SelectSeq(m, LAMBDA s : ~Complete(s, currentTime))

----------------------------------------------------------------------------
(* PulsationManager: the operations *)

PMInit ==
    /\ pulsations = <<>>
    /\ maxConcurrentPulsations \in Caps
    /\ pmCall = [op |-> "constructor", particleId |-> "", currentTime |-> 0]
    /\ pmBefore = <<>>
    /\ pmRet = Undefined

StartPulsation(particleId, beatStrength, originalSize, currentTime) ==
    /\ pulsations' = StartPulsationMap(pulsations, maxConcurrentPulsations,
                        particleId, beatStrength, originalSize, currentTime)
    /\ pmCall' = [op |-> "startPulsation", particleId |-> particleId,
                  currentTime |-> currentTime]
    /\ pmBefore' = pulsations
    /\ pmRet' = Undefined
    /\ UNCHANGED maxConcurrentPulsations

UpdatePulsations(currentTime) ==
    /\ pmRet' = ScaleMultipliers(pulsations, currentTime)
    /\ pmCall' = [op |-> "updatePulsations", particleId |-> "",
                  currentTime |-> currentTime]
    /\ pmBefore' = pulsations
    /\ UNCHANGED <<pulsations, maxConcurrentPulsations>>

Cleanup(currentTime) ==
    /\ pulsations' = CleanupMap(pulsations, currentTime)
    /\ pmCall' = [op |-> "cleanup", particleId |-> "", currentTime |-> currentTime]
    /\ pmBefore' = pulsations
    /\ pmRet' = Undefined
    /\ UNCHANGED maxConcurrentPulsations

GetCurrentScale(particleId) ==
    /\ pmRet' = IF Has(pulsations, particleId) THEN RInt(1) ELSE RInt(1)
    /\ pmCall' = [op |-> "getCurrentScale", particleId |-> particleId,
                  currentTime |-> 0]
    /\ pmBefore' = pulsations
    /\ UNCHANGED <<pulsations, maxConcurrentPulsations>>

GetActivePulsationCount ==
    /\ pmRet' = Len(pulsations)
    /\ pmCall' = [op |-> "getActivePulsationCount", particleId |-> "",
                  currentTime |-> 0]
    /\ pmBefore' = pulsations
    /\ UNCHANGED <<pulsations, maxConcurrentPulsations>>

IsPulsating(particleId) ==
    /\ pmRet' = Has(pulsations, particleId)
    /\ pmCall' = [op |-> "isPulsating", particleId |-> particleId, currentTime |-> 0]
    /\ pmBefore' = pulsations
    /\ UNCHANGED <<pulsations, maxConcurrentPulsations>>

PMReset ==
    /\ pulsations' = <<>>
    /\ pmCall' = [op |-> "reset", particleId |-> "", currentTime |-> 0]
    /\ pmBefore' = pulsations
    /\ pmRet' = Undefined
    /\ UNCHANGED maxConcurrentPulsations

\* no startPulsation call has been recorded
NoArgs == [id \in ParticleIds |-> <<>>]

\* startPulsation, its arguments recorded when it creates an entry
StartRecorded(particleId, beatStrength, originalSize, currentTime) ==
    /\ StartPulsation(particleId, beatStrength, originalSize, currentTime)
    /\ pmArgs' = IF Has(pulsations, particleId) THEN pmArgs
                 ELSE [pmArgs EXCEPT ![particleId] =
                          <<[beatStrength |-> beatStrength,
                             originalSize |-> originalSize,
                             currentTime  |-> currentTime]>>]

----------------------------------------------------------------------------
(* calculateEnergy *)

\* bins 0-10 are the bass range
BassBins == 11
\* frequency data is 0-255
MaxSample == 255

RECURSIVE SumFirst(_, _)
SumFirst(data, n) == IF n = 0 THEN 0 ELSE SumFirst(data, n - 1) + data[n]

\* calculateEnergy averaging over every bin of the snapshot
CalculateEnergyAllBins(frequencyData) ==
    IF Len(frequencyData) = 0 THEN RInt(0)
    ELSE RDiv(Rat(SumFirst(frequencyData, Len(frequencyData)), Len(frequencyData)),
              RInt(MaxSample))

CalculateEnergy(frequencyData) ==
    IF Len(frequencyData) = 0 THEN RInt(0)
    ELSE LET bassRange == IF BassBins < Len(frequencyData) THEN BassBins
                          ELSE Len(frequencyData)
             averageEnergy == Rat(SumFirst(frequencyData, bassRange), bassRange)
         IN  RDiv(averageEnergy, RInt(MaxSample))

\* the energies the snapshots produce
Energies == {CalculateEnergy(f) : f \in Snapshots}

\* calculateEnergy called on its own, as the tests and the hook's callers do
CEInit ==
    /\ ceData = <<>>
    /\ ceEnergy = CalculateEnergy(<<>>)
    /\ cePrevData = <<>>
    /\ cePrevEnergy = CalculateEnergy(<<>>)

CalcEnergy(frequencyData) ==
    /\ ceData' = frequencyData
    /\ ceEnergy' = CalculateEnergy(frequencyData)
    /\ cePrevData' = ceData
    /\ cePrevEnergy' = ceEnergy

----------------------------------------------------------------------------
(* selectStars *)

\* Math.pow(x, e) for a whole exponent e >= 0
RECURSIVE Pow(_, _)
Pow(x, e) == IF e = 0 THEN RInt(1) ELSE RMul(x, Pow(x, e - 1))

\* Math.floor
Floor(x) == x.num \div x.den

\* calculateWeight
CalculateWeight(particle, exponent) ==
    IF RLe(particle.size, RInt(0)) THEN RInt(0) ELSE Pow(particle.size, exponent)

\* particles.map(p => calculateWeight(p, config.sizeWeightExponent))
Weights(particles, exponent) ==
    [i \in 1..Len(particles) |-> CalculateWeight(particles[i], exponent)]

\* weights.reduce((sum, w) => sum + w, 0)
RECURSIVE TotalWeight(_)
TotalWeight(weights) ==
    IF weights = <<>> THEN RInt(0)
    ELSE RAdd(TotalWeight(SubSeq(weights, 1, Len(weights) - 1)), weights[Len(weights)])

\* a selection count that is not raised to 1
SelectionCountUnraised(n, beatStrength, config) ==
    LET clampedBeatStrength == RMax(RInt(0), RMin(RInt(1), beatStrength))
        selectionPercent ==
            RAdd(config.minSelectionPercent,
                 RMul(RSub(config.maxSelectionPercent, config.minSelectionPercent),
                      clampedBeatStrength))
    IN  Floor(RMul(RInt(n), selectionPercent))

\* selectionCount for n particles
SelectionCount(n, beatStrength, config) ==
    LET clampedBeatStrength == RMax(RInt(0), RMin(RInt(1), beatStrength))
        selectionPercent ==
            RAdd(config.minSelectionPercent,
                 RMul(RSub(config.maxSelectionPercent, config.minSelectionPercent),
                      clampedBeatStrength))
        floored == Floor(RMul(RInt(n), selectionPercent))
    IN  IF 1 < floored THEN floored ELSE 1

\* array.splice(index, 1), the index counted from 1
Splice(array, index) ==
    SubSeq(array, 1, index - 1) \o SubSeq(array, index + 1, Len(array))

\* an inner loop that also stops where the cumulative weight equals randomValue
RECURSIVE FindSelectedIndexInclusive(_, _, _, _)
FindSelectedIndexInclusive(availableWeights, j, cumulativeWeight, randomValue) ==
    IF j > Len(availableWeights) THEN 1
    ELSE LET cumulative == RAdd(cumulativeWeight, availableWeights[j])
         IN  IF RLe(randomValue, cumulative) THEN j
             ELSE FindSelectedIndexInclusive(availableWeights, j + 1, cumulative,
                                             randomValue)

\* an inner loop that tests randomValue before it adds the weight of index j
RECURSIVE FindSelectedIndexLate(_, _, _, _)
FindSelectedIndexLate(availableWeights, j, cumulativeWeight, randomValue) ==
    IF j > Len(availableWeights) THEN 1
    ELSE IF RLt(randomValue, cumulativeWeight) THEN j
         ELSE FindSelectedIndexLate(availableWeights, j + 1,
                  RAdd(cumulativeWeight, availableWeights[j]), randomValue)

\* the inner loop: the first index whose cumulative weight exceeds randomValue,
\* the first index of all when there is none
RECURSIVE FindSelectedIndex(_, _, _, _)
FindSelectedIndex(availableWeights, j, cumulativeWeight, randomValue) ==
    IF j > Len(availableWeights) THEN 1
    ELSE LET cumulative == RAdd(cumulativeWeight, availableWeights[j])
         IN  IF RLt(randomValue, cumulative) THEN j
             ELSE FindSelectedIndex(availableWeights, j + 1, cumulative, randomValue)

\* a sampling loop that leaves the selected particle among the available ones
RECURSIVE SampleWithReplacement(_, _, _, _, _, _)
SampleWithReplacement(availableParticles, availableWeights, i, selectionCount, draws, selected) ==
    IF ~(i < selectionCount /\ Len(availableParticles) > 0) THEN selected
    ELSE LET randomValue == RMul(draws[i + 1], TotalWeight(availableWeights))
             selectedIndex ==
                 FindSelectedIndex(availableWeights, 1, RInt(0), randomValue)
         IN  SampleWithReplacement(availableParticles, availableWeights,
                 i + 1, selectionCount, draws,
                 Append(selected, availableParticles[selectedIndex]))

\* the sampling loop from iteration i on; draws[i + 1] is what Math.random()
\* returns in iteration i
RECURSIVE WeightedSample(_, _, _, _, _, _)
WeightedSample(availableParticles, availableWeights, i, selectionCount, draws, selected) ==
    IF ~(i < selectionCount /\ Len(availableParticles) > 0) THEN selected
    ELSE LET randomValue == RMul(draws[i + 1], TotalWeight(availableWeights))
             selectedIndex ==
                 FindSelectedIndex(availableWeights, 1, RInt(0), randomValue)
         IN  WeightedSample(Splice(availableParticles, selectedIndex),
                            Splice(availableWeights, selectedIndex),
                            i + 1, selectionCount, draws,
                            Append(selected, availableParticles[selectedIndex]))

\* the orders [...particles].sort(() => Math.random() - 0.5) can leave: the
\* comparator is not consistent, so the order is any permutation
Shuffles(particles) ==
    {[i \in 1..Len(particles) |-> particles[order[i]]] :
        order \in {f \in [1..Len(particles) -> 1..Len(particles)] :
                      \A i, j \in 1..Len(particles) : i # j => f[i] # f[j]}}

\* a selectUniformRandom that returns the whole shuffled copy
SelectUniformRandomWhole(particles, count, shuffled) == shuffled

\* selectUniformRandom, shuffled being the sorted copy
SelectUniformRandom(particles, count, shuffled) ==
    SubSeq(shuffled, 1, IF count < Len(particles) THEN count ELSE Len(particles))

\* whether selectStars takes the fallback for a total weight of zero
ZeroTotalWeight(particles, config) ==
    TotalWeight(Weights(particles, config.sizeWeightExponent)) = RInt(0)

\* how many times the sampling loop of selectStars runs
DrawCount(particles, beatStrength, config) ==
    LET n == Len(particles)
        selectionCount == SelectionCount(n, beatStrength, config)
    IN  IF n = 0 \/ ZeroTotalWeight(particles, config) THEN 0
        ELSE IF selectionCount < n THEN selectionCount ELSE n

\* the arrays selectStars can return, draws being what Math.random() returns
\* in the sampling loop
SelectStarsDrawing(particles, beatStrength, config, draws) ==
    IF Len(particles) = 0 THEN {<<>>}
    ELSE LET selectionCount == SelectionCount(Len(particles), beatStrength, config)
             weights == Weights(particles, config.sizeWeightExponent)
         IN  IF TotalWeight(weights) = RInt(0)
             THEN {SelectUniformRandom(particles, selectionCount, shuffled) :
                      shuffled \in Shuffles(particles)}
             ELSE {WeightedSample(particles, weights, 0, selectionCount, draws, <<>>)}

\* the arrays selectStars can return
SelectStarsResults(particles, beatStrength, config) ==
    UNION {SelectStarsDrawing(particles, beatStrength, config, draws) :
              draws \in [1..DrawCount(particles, beatStrength, config) -> RandomValues]}

SSInit ==
    /\ ssParticles \in ParticleLists
    /\ ssBeatStrength \in SelectStrengths
    /\ ssConfig \in SelectionConfigs
    /\ ssCalled = FALSE
    /\ ssSelected = <<>>
    /\ ssDraws = <<>>

SelectStars ==
    /\ ~ssCalled
    /\ \E draws \in [1..DrawCount(ssParticles, ssBeatStrength, ssConfig) -> RandomValues] :
          /\ ssSelected' \in SelectStarsDrawing(ssParticles, ssBeatStrength, ssConfig,
                                                draws)
          /\ ssDraws' = draws
    /\ ssCalled' = TRUE
    /\ UNCHANGED <<ssParticles, ssBeatStrength, ssConfig>>

----------------------------------------------------------------------------
(* BeatDetector *)

Null == <<>>

\* the state the constructor sets
ConstructorState ==
    [energyHistory |-> <<>>, lastBeatTime |-> 0,
     averageEnergy |-> RInt(0), varianceEnergy |-> RInt(0)]

\* reset() that forgets the history but not the last beat
ResetKeepingLastBeat(s) ==
    [energyHistory |-> <<>>, lastBeatTime |-> s.lastBeatTime,
     averageEnergy |-> RInt(0), varianceEnergy |-> RInt(0)]

\* the state reset() assigns, s being the state it replaces
ResetState(s) ==
    [energyHistory |-> <<>>, lastBeatTime |-> 0,
     averageEnergy |-> RInt(0), varianceEnergy |-> RInt(0)]

RECURSIVE RSum(_)
RSum(history) ==
    IF history = <<>> THEN RInt(0) ELSE RAdd(history[1], RSum(Tail(history)))

\* the sum of the squared differences from avg
RECURSIVE VarianceSum(_, _)
VarianceSum(history, avg) ==
    IF history = <<>> THEN RInt(0)
    ELSE LET diff == RSub(history[1], avg)
         IN  RAdd(RMul(diff, diff), VarianceSum(Tail(history), avg))

\* a window that drops the newest entry when it is full
PushDroppingNewest(history, size, energy) ==
    LET pushed == Append(history, energy)
    IN  IF Len(pushed) > size THEN SubSeq(pushed, 1, Len(pushed) - 1) ELSE pushed

\* history.push(energy), then history.shift() when over the size limit
Push(history, size, energy) ==
    LET pushed == Append(history, energy)
    IN  IF Len(pushed) > size THEN Tail(pushed) ELSE pushed

\* the statistics of a (non-empty) history
Statistics(history) ==
    LET len == Len(history)
        avg == RDiv(RSum(history), RInt(len))
    IN  [averageEnergy  |-> avg,
         varianceEnergy |-> RSqrt(RDiv(VarianceSum(history, avg), RInt(len)))]

\* updateHistory that takes the statistics before it evicts
UpdateHistoryStale(s, size, energy) ==
    LET stats == Statistics(Append(s.energyHistory, energy))
    IN  [energyHistory  |-> Push(s.energyHistory, size, energy),
         lastBeatTime   |-> s.lastBeatTime,
         averageEnergy  |-> stats.averageEnergy,
         varianceEnergy |-> stats.varianceEnergy]

\* the state after updateHistory(energy)
UpdateHistoryState(s, size, energy) ==
    LET history == Push(s.energyHistory, size, energy)
        stats == Statistics(history)
    IN  [energyHistory  |-> history,
         lastBeatTime   |-> s.lastBeatTime,
         averageEnergy  |-> stats.averageEnergy,
         varianceEnergy |-> stats.varianceEnergy]

\* a debounce window one millisecond short
DebouncedOneShort(timestamp, lastBeatTime, debounce) ==
    timestamp - lastBeatTime < debounce - 1

\* a debounce check that takes a lastBeatTime of 0 for "no beat yet"
DebouncedSinceBeat(timestamp, lastBeatTime, debounce) ==
    lastBeatTime # 0 /\ timestamp - lastBeatTime < debounce

\* the debounce check
Debounced(timestamp, lastBeatTime, debounce) ==
    timestamp - lastBeatTime < debounce

\* a threshold without the variance term
ThresholdOfAverage(averageEnergy, varianceEnergy, multiplier) ==
    RMul(averageEnergy, multiplier)

\* the dynamic threshold
Threshold(averageEnergy, varianceEnergy, multiplier) ==
    RAdd(RMul(averageEnergy, multiplier), RMul(varianceEnergy, Rat(1, 2)))

\* a beat test that accepts energy at the threshold and has no guard on the average
IsBeatAtThreshold(energy, threshold, averageEnergy) == RGe(energy, threshold)

\* energy > threshold && averageEnergy > 0
IsBeat(energy, threshold, averageEnergy) ==
    RGt(energy, threshold) /\ RGt(averageEnergy, RInt(0))

\* a strength without the cap at 1
BeatStrengthUncapped(energy, threshold) ==
    IF threshold.num = 0 THEN RInt(1)
    ELSE RDiv(RSub(energy, threshold), threshold)

\* Math.min(1, (energy - threshold) / threshold); the quotient is +Infinity when
\* the threshold is 0 (the energy being above it)
BeatStrength(energy, threshold) ==
    IF threshold.num = 0 THEN RInt(1)
    ELSE RMin(RInt(1), RDiv(RSub(energy, threshold), threshold))

\* a detectBeat that checks the debounce before it updates the history
DetectBeatDebounceFirst(s, size, multiplier, debounce, energy, timestamp) ==
    LET s1 == UpdateHistoryState(s, size, energy)
        threshold == Threshold(s1.averageEnergy, s1.varianceEnergy, multiplier)
    IN  IF Debounced(timestamp, s.lastBeatTime, debounce)
        THEN [state |-> s, ret |-> Null]
        ELSE IF IsBeat(energy, threshold, s1.averageEnergy)
             THEN [state |-> [s1 EXCEPT !.lastBeatTime = timestamp],
                   ret   |-> <<BeatStrength(energy, threshold)>>]
             ELSE [state |-> s1, ret |-> Null]

\* detectBeat from the energy on: the state it leaves and what it returns
DetectBeatResult(s, size, multiplier, debounce, energy, timestamp) ==
    LET s1 == UpdateHistoryState(s, size, energy)
        threshold == Threshold(s1.averageEnergy, s1.varianceEnergy, multiplier)
    IN  IF Debounced(timestamp, s1.lastBeatTime, debounce)
        THEN [state |-> s1, ret |-> Null]
        ELSE IF IsBeat(energy, threshold, s1.averageEnergy)
             THEN [state |-> [s1 EXCEPT !.lastBeatTime = timestamp],
                   ret   |-> <<BeatStrength(energy, threshold)>>]
             ELSE [state |-> s1, ret |-> Null]

BDInit ==
    /\ historySize \in HistorySizes
    /\ thresholdMultiplier \in Multipliers
    /\ debounceMs \in Debounces
    /\ state = ConstructorState
    /\ bdCall = [op |-> "constructor", energy |-> RInt(0), timestamp |-> 0]
    /\ bdRet = Null
    /\ arrivals = <<>>
    /\ beats = <<>>
    /\ fresh = ConstructorState
    /\ freshRet = Null
    /\ reused = FALSE

DetectBeat(frequencyData, timestamp) ==
    /\ Len(arrivals) < MaxCalls
    /\ \E energy \in {CalculateEnergy(frequencyData)} :
       \E r \in {DetectBeatResult(state, historySize, thresholdMultiplier,
                                  debounceMs, energy, timestamp)},
          f \in {DetectBeatResult(fresh, historySize, thresholdMultiplier,
                                  debounceMs, energy, timestamp)} :
           /\ state' = r.state
           /\ bdRet' = r.ret
           /\ fresh' = f.state
           /\ freshRet' = f.ret
           /\ bdCall' = [op |-> "detectBeat", energy |-> energy,
                         timestamp |-> timestamp]
           /\ arrivals' = Append(arrivals, energy)
           /\ beats' = IF r.ret = Null THEN beats ELSE Append(beats, timestamp)
    /\ UNCHANGED <<historySize, thresholdMultiplier, debounceMs, reused>>

UpdateHistory(energy) ==
    /\ Len(arrivals) < MaxCalls
    /\ state' = UpdateHistoryState(state, historySize, energy)
    /\ fresh' = UpdateHistoryState(fresh, historySize, energy)
    /\ bdRet' = Null
    /\ freshRet' = Null
    /\ bdCall' = [op |-> "updateHistory", energy |-> energy, timestamp |-> 0]
    /\ arrivals' = Append(arrivals, energy)
    /\ UNCHANGED <<historySize, thresholdMultiplier, debounceMs, beats, reused>>

BDReset ==
    /\ state' = ResetState(state)
    /\ fresh' = ConstructorState
    /\ bdRet' = Null
    /\ freshRet' = Null
    /\ bdCall' = [op |-> "reset", energy |-> RInt(0), timestamp |-> 0]
    /\ arrivals' = <<>>
    /\ beats' = <<>>
    /\ reused' = (beats # <<>>)
    /\ UNCHANGED <<historySize, thresholdMultiplier, debounceMs>>

BDNext ==
    \/ \E f \in Snapshots, t \in Timestamps : DetectBeat(f, t)
    \/ \E e \in Energies : UpdateHistory(e)
    \/ BDReset

\* no state object has been handed out
NoView ==
    [taken |-> FALSE, sameObject |-> FALSE, sameHistory |-> FALSE, writes |-> 0,
     energyHistory |-> <<>>, lastBeatTime |-> 0,
     averageEnergy |-> RInt(0), varianceEnergy |-> RInt(0)]

\* what getState() returns, { ...this.state }: a new object whose fields hold
\* the values of the fields of this.state, energyHistory the same array
GetStateResult(s) ==
    [taken |-> TRUE, sameObject |-> FALSE, sameHistory |-> TRUE, writes |-> 0,
     energyHistory |-> <<>>, lastBeatTime |-> s.lastBeatTime,
     averageEnergy |-> s.averageEnergy, varianceEnergy |-> s.varianceEnergy]

\* the contents of the energyHistory array of the returned object
ViewHistory == IF bdView.sameHistory THEN state.energyHistory ELSE bdView.energyHistory

\* the returned object after this.state was assigned a new object with a new
\* array: it keeps the array it has, with the contents it had
Detached(view, s) ==
    IF view.sameHistory
    THEN [view EXCEPT !.sameHistory = FALSE, !.energyHistory = s.energyHistory]
    ELSE view

\* the callbacks registered on a FakeBeatDetector
FakeCallbacks == {"p", "q"}
\* the tempos it is given
Tempos == {92, 148}
\* 0.6 + Math.random() * 0.4 at the ends of its range
FakeStrengths == {Rat(3, 5), RInt(1)}
\* what a callback does when an interval tick calls it: return, or call
\* stop(), start() or setBPM() of the detector
FakeBehaviours == {"return", "stop", "start", "setBPM"}

\* the timestamps of the detectBeat calls made while a state object is held
HeldTimestamps == {2}
\* and what the analyser delivers to them: silence and full volume
HeldSnapshots == {<<>>, [i \in 1..12 |-> 255]}

\* the values the holder writes
WrittenValues == {RInt(1)}

\* what a holder of the returned object can do to it
Modifications == {"push", "truncate", "averageEnergy"}

\* the history array after the holder's write
ModifiedHistory(history, kind, energy) ==
    IF kind = "push" THEN Append(history, energy)
    ELSE IF kind = "truncate" THEN <<>>
    ELSE history

GetState ==
    /\ bdView' = GetStateResult(state)
    /\ bdCall' = [op |-> "getState", energy |-> RInt(0), timestamp |-> 0]
    /\ UNCHANGED <<state, historySize, thresholdMultiplier, debounceMs, bdRet,
                   arrivals, beats, fresh, freshRet, reused>>

\* the holder of the returned object writes to it: returned.energyHistory
\* .push(energy), returned.energyHistory.length = 0 or returned.averageEnergy
\* = energy (Readonly<> is erased at run time)
Modify(kind, energy) ==
    /\ bdView.taken
    /\ bdView.writes < MaxWrites
    /\ kind = "push" => Len(ViewHistory) <= MaxHistorySize
    /\ bdView' =
          [bdView EXCEPT
              !.writes = @ + 1,
              !.energyHistory = IF bdView.sameHistory THEN @
                                ELSE ModifiedHistory(@, kind, energy),
              !.averageEnergy = IF kind = "averageEnergy" THEN energy ELSE @]
    /\ state' =
          [state EXCEPT
              !.energyHistory = IF bdView.sameHistory
                                THEN ModifiedHistory(@, kind, energy) ELSE @,
              !.averageEnergy = IF kind = "averageEnergy" /\ bdView.sameObject
                                THEN energy ELSE @]
    /\ bdCall' = [op |-> "modify", energy |-> energy, timestamp |-> 0]
    /\ UNCHANGED <<historySize, thresholdMultiplier, debounceMs, bdRet, arrivals,
                   beats, fresh, freshRet, reused>>

----------------------------------------------------------------------------
(* AudioAnalysisProvider *)

\* new BeatDetector(60, beatThreshold, beatDebounceMs), the props at their defaults
ProviderHistorySize == 60
BeatThreshold == Rat(13, 10)
BeatDebounceMs == 100
\* new PulsationManager()
DefaultMaxConcurrentPulsations == 30
\* config.pulsationIntensity at its default
PulsationIntensity == RInt(1)

\* the provider as mounted
MountedProvider(supported) ==
    [isWebAudioSupported |-> supported,
     audioElement        |-> FALSE,
     audioContext        |-> FALSE,
     analyser            |-> FALSE,
     beatCallbacks       |-> <<>>,
     beatDetector        |-> Null,
     animationFrameId    |-> Null,
     frequencyData       |-> FALSE,
     audioErrorHandler   |-> FALSE,
     isAnalyzing         |-> FALSE,
     error               |-> Null]

\* the provider, the frame scheduler and the subscription bookkeeping together
World ==
    [provider |-> provider, frames |-> frames,
     subscribed |-> subscribed, stopped |-> stopped]

\* the index of callback c in the Set, 0 when it is absent
IndexOf(callbacks, c) ==
    IF \E i \in 1..Len(callbacks) : callbacks[i] = c
    THEN CHOOSE i \in 1..Len(callbacks) : callbacks[i] = c
    ELSE 0

\* Set.add
SetAdd(callbacks, c) ==
    IF IndexOf(callbacks, c) = 0 THEN Append(callbacks, c) ELSE callbacks

\* Set.delete
SetDelete(callbacks, c) == SelectSeq(callbacks, LAMBDA d : d # c)

\* onBeat(callback)
Subscribe(w, c) ==
    [w EXCEPT !.provider.beatCallbacks = SetAdd(@, c),
              !.subscribed = @ \cup {c}]

\* the unsubscribe function onBeat returned for callback c
Unsubscribed(w, c) ==
    [w EXCEPT !.provider.beatCallbacks = SetDelete(@, c),
              !.subscribed = @ \ {c}]

\* cancelAnimationFrame(animationFrameIdRef.current) when the ref is not null
CancelFrame(w) ==
    IF w.provider.animationFrameId # Null
    THEN [w EXCEPT !.frames = @ \ {w.provider.animationFrameId[1]}]
    ELSE w

\* the id requestAnimationFrame returns: one that is not in use
NextFrameId(w) ==
    CHOOSE i \in 1..(Cardinality(w.frames) + 2) :
        /\ i \notin w.frames /\ <<i>> # w.provider.animationFrameId
        /\ \A j \in 1..(i - 1) : j \in w.frames \/ <<j>> = w.provider.animationFrameId

\* animationFrameIdRef.current = requestAnimationFrame(analysisLoop)
RequestFrame(w) ==
    LET id == NextFrameId(w)
    IN  [w EXCEPT !.frames = @ \cup {id}, !.provider.animationFrameId = <<id>>]

\* stopAnalysisLoop
StopAnalysisLoop(w) ==
    IF w.provider.animationFrameId # Null
    THEN [CancelFrame(w) EXCEPT !.provider.animationFrameId = Null]
    ELSE w

\* startAnalysisLoop
StartAnalysisLoop(w) == RequestFrame(CancelFrame(w))

\* registerAudioElement(element) for an element that is not null
RegisterAudioElement(w, outcome) ==
    IF ~w.provider.isWebAudioSupported
    THEN [w EXCEPT !.provider.error = <<"unsupported">>, !.stopped = FALSE]
    ELSE LET connected ==
                 [w EXCEPT !.provider.audioElement = TRUE,
                           !.provider.audioErrorHandler = TRUE,
                           !.provider.audioContext = TRUE,
                           !.provider.analyser = TRUE,
                           !.stopped = FALSE]
         IN  IF outcome = "throws"
             THEN [connected EXCEPT !.provider.error = <<"register">>,
                                    !.provider.isAnalyzing = FALSE]
             ELSE [StartAnalysisLoop(
                      [connected EXCEPT
                          !.provider.beatDetector = <<ConstructorState>>,
                          !.provider.frequencyData = TRUE])
                   EXCEPT !.provider.isAnalyzing = TRUE,
                          !.provider.error = Null]

\* an unregisterAudioElement that leaves the beat listeners registered
UnregisterKeepingCallbacks(w) ==
    [StopAnalysisLoop(w) EXCEPT
        !.provider.audioErrorHandler =
            IF w.provider.audioElement /\ @ THEN FALSE ELSE @,
        !.provider.analyser = FALSE,
        !.provider.audioContext = FALSE,
        !.provider.audioElement = FALSE,
        !.provider.beatDetector = Null,
        !.provider.frequencyData = FALSE,
        !.provider.isAnalyzing = FALSE,
        !.provider.error = Null,
        !.stopped = TRUE]

\* unregisterAudioElement
UnregisterAudioElement(w) ==
    [StopAnalysisLoop(w) EXCEPT
        !.provider.audioErrorHandler =
            IF w.provider.audioElement /\ @ THEN FALSE ELSE @,
        !.provider.analyser = FALSE,
        !.provider.audioContext = FALSE,
        !.provider.audioElement = FALSE,
        !.provider.beatDetector = Null,
        !.provider.frequencyData = FALSE,
        !.provider.beatCallbacks = <<>>,
        !.provider.isAnalyzing = FALSE,
        !.provider.error = Null,
        !.stopped = TRUE]

\* the catch block of analysisLoop
LoopError(w) ==
    [StopAnalysisLoop(w) EXCEPT !.provider.error = <<"loop">>,
                                !.provider.isAnalyzing = FALSE]

\* the body of the listener at position pos of the Set: the world it leaves,
\* the position forEach visits next and whether it threw
Invoke(w, pos, c, deviant, behaviour) ==
    LET at == IndexOf(w.provider.beatCallbacks, behaviour.target)
        after == IF at # 0 /\ at <= pos THEN pos ELSE pos + 1
    IN  IF c # deviant \/ behaviour.kind = "return"
        THEN [world |-> w, pos |-> pos + 1, threw |-> FALSE]
        ELSE IF behaviour.kind = "throw"
        THEN [world |-> w, pos |-> pos + 1, threw |-> TRUE]
        ELSE IF behaviour.kind = "unregister"
        THEN [world |-> UnregisterAudioElement(w), pos |-> 1, threw |-> FALSE]
        ELSE IF behaviour.kind = "register"
        THEN [world |-> RegisterAudioElement(w, "ok"), pos |-> pos + 1,
              threw |-> FALSE]
        ELSE IF behaviour.kind = "unsubscribe"
        THEN [world |-> Unsubscribed(w, behaviour.target), pos |-> after,
              threw |-> FALSE]
        ELSE [world |-> Subscribe(Unsubscribed(w, behaviour.target),
                                  behaviour.target),
              pos |-> after, threw |-> FALSE]

\* a forEach whose callback has no try/catch: what a listener throws escapes
RECURSIVE ForEachUncaught(_, _, _, _, _, _)
ForEachUncaught(w, pos, beatStrength, deviant, behaviour, invoked) ==
    IF pos > Len(w.provider.beatCallbacks)
    THEN [world |-> w, invoked |-> invoked, escaped |-> FALSE]
    ELSE LET c == w.provider.beatCallbacks[pos]
             r == Invoke(w, pos, c, deviant, behaviour)
             called == Append(invoked, [callback |-> c, strength |-> beatStrength,
                                        subscribed |-> c \in w.subscribed])
         IN  IF r.threw
             THEN [world |-> r.world, invoked |-> called, escaped |-> TRUE]
             ELSE ForEachUncaught(r.world, r.pos, beatStrength, deviant,
                                  behaviour, called)

\* beatCallbacksRef.current.forEach(callback => try { callback(beatStrength) }
\* catch { log }) from position pos of the Set on
RECURSIVE ForEachCallback(_, _, _, _, _, _)
ForEachCallback(w, pos, beatStrength, deviant, behaviour, invoked) ==
    IF pos > Len(w.provider.beatCallbacks)
    THEN [world |-> w, invoked |-> invoked, escaped |-> FALSE]
    ELSE LET c == w.provider.beatCallbacks[pos]
             r == Invoke(w, pos, c, deviant, behaviour)
             called == Append(invoked, [callback |-> c, strength |-> beatStrength,
                                        subscribed |-> c \in w.subscribed])
         IN  ForEachCallback(r.world, r.pos, beatStrength, deviant, behaviour,
                             called)

\* the refs analysisLoop needs are all set
Live(p) == p.analyser /\ p.beatDetector # Null /\ p.frequencyData /\ p.audioElement

\* a tick that neither samples nor detects, leaving the world w
Skipped(w) ==
    [world |-> w, sampled |-> FALSE, faulted |-> FALSE, detected |-> FALSE,
     strength |-> Null, invoked |-> <<>>]

\* the branch of analysisLoop for an element that is playing: w is the world it
\* finds, frequencyData what the analyser delivers, fault whether
\* getByteFrequencyData throws
Analyse(w, frequencyData, fault, deviant, behaviour, timestamp) ==
    LET p == w.provider
    IN  IF fault
        THEN [Skipped(LoopError(w)) EXCEPT !.sampled = TRUE, !.faulted = TRUE]
        ELSE LET d == DetectBeatResult(p.beatDetector[1], ProviderHistorySize,
                          BeatThreshold, BeatDebounceMs,
                          CalculateEnergy(frequencyData), timestamp)
                 w1 == [w EXCEPT !.provider.beatDetector = <<d.state>>]
                 n == IF d.ret # Null /\ Len(p.beatCallbacks) > 0
                      THEN ForEachCallback(w1, 1, d.ret[1], deviant, behaviour, <<>>)
                      ELSE [world |-> w1, invoked |-> <<>>, escaped |-> FALSE]
             IN  [world    |-> IF n.escaped THEN LoopError(n.world)
                               ELSE RequestFrame(n.world),
                  sampled  |-> TRUE, faulted |-> n.escaped,
                  detected |-> TRUE, strength |-> d.ret, invoked |-> n.invoked]

\* an analysisLoop that analyses whether or not the element is playing
AnalysisLoopWhilePaused(w, paused, frequencyData, fault, deviant, behaviour, timestamp) ==
    IF ~Live(w.provider)
    THEN Skipped(w)
    ELSE Analyse(w, frequencyData, fault, deviant, behaviour, timestamp)

\* analysisLoop, the frame that runs it taken off the scheduler
AnalysisLoop(w, paused, frequencyData, fault, deviant, behaviour, timestamp) ==
    IF ~Live(w.provider)
    THEN Skipped(w)
    ELSE IF paused
    THEN Skipped(RequestFrame(w))
    ELSE Analyse(w, frequencyData, fault, deviant, behaviour, timestamp)

\* what a listener can do out of line in a tick: nothing, or one listener
\* does one thing other than return (a listener that subscribes itself again
\* whenever it is invoked never lets forEach end, and is left out)
Deviations ==
    {[deviant |-> "", behaviour |-> [kind |-> "return", target |-> ""]]}
    \cup {[deviant |-> q[1], behaviour |-> q[2]] :
             q \in {x \in Callbacks \X Behaviours :
                      /\ x[2].kind # "return"
                      /\ x[2].kind = "resubscribe" => x[2].target # x[1]}}

\* a tick in which every listener returns, or one in which one listener calls
\* registerAudioElement
Reentries ==
    {[deviant |-> "", behaviour |-> [kind |-> "return", target |-> ""]]}
    \cup {[deviant |-> c, behaviour |-> [kind |-> "register", target |-> ""]] :
             c \in Callbacks}

\* a provider step that is not an analysis tick
Step(op) ==
    [op |-> op, sampled |-> FALSE, faulted |-> FALSE, detected |-> FALSE,
     strength |-> Null, invoked |-> <<>>,
     thrower |-> "", subscribedBefore |-> subscribed, stoppedBefore |-> stopped]

NoTwin ==
    [beatDetector |-> Null, invoked |-> <<>>, frames |-> {},
     animationFrameId |-> Null]

SetWorld(w) ==
    /\ provider' = w.provider
    /\ frames' = w.frames
    /\ subscribed' = w.subscribed
    /\ stopped' = w.stopped

\* the provider mounts; StarfieldBackground constructs its PulsationManager
AAInit ==
    /\ provider \in {MountedProvider(supported) : supported \in BOOLEAN}
    /\ frames = {}
    /\ mounted = TRUE
    /\ audioPaused = TRUE
    /\ now = 0
    /\ subscribed = {}
    /\ stopped = FALSE
    /\ aaLast = [op |-> "mount", sampled |-> FALSE, faulted |-> FALSE,
                 detected |-> FALSE, strength |-> Null,
                 invoked |-> <<>>, thrower |-> "", subscribedBefore |-> {},
                 stoppedBefore |-> FALSE]
    /\ aaTwin = NoTwin
    /\ pulsations = <<>>
    /\ maxConcurrentPulsations = DefaultMaxConcurrentPulsations
    /\ pmCall = [op |-> "constructor", particleId |-> "", currentTime |-> 0]
    /\ pmBefore = <<>>
    /\ pmRet = Undefined

OnBeat(callback) ==
    /\ mounted
    /\ SetWorld(Subscribe(World, callback))
    /\ aaLast' = Step("onBeat")
    /\ aaTwin' = NoTwin
    /\ UNCHANGED <<mounted, audioPaused, now, pmVars>>

\* the unsubscribe function of a subscribed callback is called
Unsubscribe(callback) ==
    /\ callback \in subscribed
    /\ SetWorld(Unsubscribed(World, callback))
    /\ aaLast' = Step("unsubscribe")
    /\ aaTwin' = NoTwin
    /\ UNCHANGED <<mounted, audioPaused, now, pmVars>>

Register(outcome) ==
    /\ mounted
    /\ SetWorld(RegisterAudioElement(World, outcome))
    /\ aaLast' = Step("registerAudioElement")
    /\ aaTwin' = NoTwin
    /\ UNCHANGED <<mounted, audioPaused, now, pmVars>>

Unregister ==
    /\ mounted
    /\ SetWorld(UnregisterAudioElement(World))
    /\ aaLast' = Step("unregisterAudioElement")
    /\ aaTwin' = NoTwin
    /\ UNCHANGED <<mounted, audioPaused, now, pmVars>>

\* the cleanup of the provider's effect
Unmount ==
    /\ mounted
    /\ mounted' = FALSE
    /\ SetWorld([StopAnalysisLoop(World) EXCEPT !.stopped = TRUE])
    /\ aaLast' = Step("unmount")
    /\ aaTwin' = NoTwin
    /\ UNCHANGED <<audioPaused, now, pmVars>>

\* the audio element starts or stops playing
SetPaused(paused) ==
    /\ paused # audioPaused
    /\ audioPaused' = paused
    /\ aaLast' = Step("audio")
    /\ aaTwin' = NoTwin
    /\ UNCHANGED <<provider, frames, mounted, now, subscribed, stopped, pmVars>>

\* the host runs the requested frame frameId: analysisLoop, and
\* StarfieldBackground's listener starting a pulsation when it is notified
Tick(frameId, frequencyData, fault, deviant, behaviour) ==
    /\ frameId \in frames
    /\ now < MaxTicks * FrameMs
    /\ \E fired \in {[World EXCEPT !.frames = @ \ {frameId}]} :
       \E r \in {AnalysisLoop(fired, audioPaused, frequencyData, fault, deviant,
                              behaviour, now + FrameMs)},
          t \in {AnalysisLoop(fired, audioPaused, frequencyData, fault, deviant,
                              IF behaviour.kind = "throw"
                              THEN [kind |-> "return", target |-> ""]
                              ELSE behaviour,
                              now + FrameMs)} :
           /\ SetWorld(r.world)
           /\ aaLast' =
                 [op |-> "tick", sampled |-> r.sampled, faulted |-> r.faulted,
                  detected |-> r.detected, strength |-> r.strength,
                  invoked |-> r.invoked,
                  thrower |-> IF /\ behaviour.kind = "throw"
                                 /\ \E k \in 1..Len(r.invoked) :
                                       r.invoked[k].callback = deviant
                              THEN deviant ELSE "",
                  subscribedBefore |-> subscribed, stoppedBefore |-> stopped]
           /\ aaTwin' = [beatDetector |-> t.world.provider.beatDetector,
                         invoked |-> t.invoked, frames |-> t.world.frames,
                         animationFrameId |-> t.world.provider.animationFrameId]
           /\ IF /\ \E k \in 1..Len(r.invoked) : r.invoked[k].callback = "starfield"
                 /\ deviant # "starfield"
              THEN StartPulsation(StarfieldParticle.id,
                                  RMul(r.strength[1], PulsationIntensity),
                                  StarfieldParticle.size, now + FrameMs)
              ELSE UNCHANGED pmVars
    /\ now' = now + FrameMs
    /\ UNCHANGED <<mounted, audioPaused>>

----------------------------------------------------------------------------
(* StarfieldBackground *)

\* Math.max(0, Math.min(1, x))
Clamp01(x) == RMax(RInt(0), RMin(RInt(1), x))

\* contextValue.config of the provider
ContextConfig(props) ==
    [pulsationIntensity  |-> Clamp01(props.pulsationIntensity),
     selectionPercentage |-> Clamp01(props.selectionPercentage)]

\* the config the beat listener hands to selectStars
ListenerSelectionConfig(cfg) ==
    [minSelectionPercent |-> RMul(cfg.selectionPercentage, Rat(1, 2)),
     maxSelectionPercent |-> RMul(cfg.selectionPercentage, Rat(3, 2)),
     sizeWeightExponent  |-> 2]

\* x || 1
OrOne(x) == IF x.num = 0 THEN RInt(1) ELSE x

\* particles.map(p => ({ id: p.id, size: p.size?.value || 1 }))
ParticleData(particles) ==
    [i \in 1..Len(particles) |->
        [id |-> particles[i].id, size |-> OrOne(particles[i].size)]]

\* selectedParticles.forEach(particle => startPulsation(particle.id,
\* adjustedStrength, particle.size, currentTime)) on the map m
RECURSIVE StartSelected(_, _, _, _, _)
StartSelected(m, cap, selected, adjustedStrength, currentTime) ==
    IF selected = <<>> THEN m
    ELSE StartSelected(
             StartPulsationMap(m, cap, Head(selected).id, adjustedStrength,
                               Head(selected).size, currentTime),
             cap, Tail(selected), adjustedStrength, currentTime)

\* the arrays selectStars can return for particles that all have a positive
\* size, Math.random() ranging over all of [0, 1): every particle left has a
\* positive weight in every draw, so any selectionCount of them in any order
ListenerSelections(particleData, beatStrength, config) ==
    LET n == Len(particleData)
        selectionCount == SelectionCount(n, beatStrength, config)
        k == IF selectionCount < n THEN selectionCount ELSE n
    IN  {[i \in 1..k |-> particleData[f[i]]] :
            f \in {g \in [1..k -> 1..n] : \A i, j \in 1..k : i # j => g[i] # g[j]}}

\* the first component's frame applied to one particle, some pulsation being
\* in progress
ScaledOrReset(p, scales) ==
    IF p.id \in DOMAIN scales
    THEN LET original == IF p.originalSize = <<>> \/ p.originalSize[1].num = 0
                         THEN OrOne(p.size) ELSE p.originalSize[1]
         IN  [p EXCEPT !.originalSize = <<original>>,
                       !.size = RMul(original, scales[p.id])]
    ELSE IF p.originalSize # <<>> /\ p.originalSize[1].num # 0
    THEN [p EXCEPT !.size = p.originalSize[1]]
    ELSE p

\* updatePulsations of the first component at time t: it touches the
\* particles and cleans up only when a pulsation is in progress
FrameFirst(particles, decaying, m, t) ==
    LET scales == ScaleMultipliers(m, t)
    IN  IF DOMAIN scales = {}
        THEN [particles |-> particles, decaying |-> decaying, pulsations |-> m]
        ELSE [particles  |-> [i \in 1..Len(particles) |->
                                 ScaledOrReset(particles[i], scales)],
              decaying   |-> decaying,
              pulsations |-> CleanupMap(m, t)]

\* step 1 of the second component's frame applied to one particle
Scaled(p, scales) ==
    IF p.id \in DOMAIN scales
    THEN LET original == IF p.originalSize = <<>> \/ p.originalSize[1].num = 0
                         THEN p.size ELSE p.originalSize[1]
         IN  [p EXCEPT !.originalSize = <<original>>,
                       !.size = RMul(original, scales[p.id])]
    ELSE p

\* current + (target - current) * 0.15
Decay(current, target) ==
    Rat(17 * current.num * target.den + 3 * target.num * current.den,
        20 * current.den * target.den)

\* Math.abs(current - target) < 0.01
Close(current, target) ==
    LET d == RSub(current, target)
    IN  RLt(IF d.num < 0 THEN RSub(target, current) ELSE d, Rat(1, 100))

\* step 2 of the second component's frame applied to one particle
Decayed(p, scales, decaying) ==
    IF p.id \notin DOMAIN decaying \/ p.id \in DOMAIN scales THEN p
    ELSE IF Close(p.size, decaying[p.id])
    THEN [p EXCEPT !.size = decaying[p.id], !.originalSize = <<>>]
    ELSE [p EXCEPT !.size = Decay(p.size, decaying[p.id])]

\* updatePulsations of the second component at time t
FrameSecond(particles, decaying, m, t) ==
    LET scales == ScaleMultipliers(m, t)
        scaled == [i \in 1..Len(particles) |-> Scaled(particles[i], scales)]
        atOne == {i \in 1..Len(particles) :
                     /\ scaled[i].id \in DOMAIN scales
                     /\ scales[scaled[i].id] = RInt(1)}
        tracked == [id \in DOMAIN decaying \cup {scaled[i].id : i \in atOne} |->
                       IF \E i \in atOne : scaled[i].id = id
                       THEN scaled[CHOOSE i \in atOne : scaled[i].id = id]
                                .originalSize[1]
                       ELSE decaying[id]]
        done == {scaled[i].id : i \in
                    {j \in 1..Len(particles) :
                        /\ scaled[j].id \in DOMAIN tracked
                        /\ scaled[j].id \notin DOMAIN scales
                        /\ Close(scaled[j].size, tracked[scaled[j].id])}}
    IN  [particles  |-> [i \in 1..Len(particles) |->
                            Decayed(scaled[i], scales, tracked)],
         decaying   |-> [id \in DOMAIN tracked \ done |-> tracked[id]],
         pulsations |-> CleanupMap(m, t)]

\* the frame of the component that is built
FrameOutcome(variant, particles, decaying, m, t) ==
    IF variant = 1 THEN FrameFirst(particles, decaying, m, t)
    ELSE FrameSecond(particles, decaying, m, t)

\* a step that is no beat
StarStep(op) ==
    [op |-> op, strength |-> RInt(0), config |-> <<>>, intensity |-> RInt(0),
     adjustedStrength |-> RInt(0), selected |-> <<>>]

\* the provider renders with its props, StarfieldBackground mounts, constructs
\* its PulsationManager and the container loads
SFInit ==
    /\ ctxProps \in ProviderProps
    /\ sfVariant \in {1, 2}
    /\ sfParticles = StarfieldParticles
    /\ sfDecaying = <<>>
    /\ sfNow = 0
    /\ sfFramed = FALSE
    /\ sfBase = [id \in {"a", "b"} |-> <<>>]
    /\ sfLast = StarStep("mount")
    /\ pulsations = <<>>
    /\ maxConcurrentPulsations = DefaultMaxConcurrentPulsations
    /\ pmCall = [op |-> "constructor", particleId |-> "", currentTime |-> 0]
    /\ pmBefore = <<>>
    /\ pmRet = Undefined

\* the beat listener (processBeat) is invoked with strength
ProcessBeat(strength) ==
    LET cfg == ContextConfig(ctxProps)
        selection == ListenerSelectionConfig(cfg)
        particleData == ParticleData(sfParticles)
        adjustedStrength == RMul(strength, cfg.pulsationIntensity)
    IN  \E selected \in ListenerSelections(particleData, strength, selection) :
            /\ pulsations' = StartSelected(pulsations, maxConcurrentPulsations,
                                 selected, adjustedStrength, sfNow)
            /\ pmCall' = [op |-> "startPulsation",
                          particleId |-> selected[Len(selected)].id,
                          currentTime |-> sfNow]
            /\ pmBefore' = pulsations
            /\ pmRet' = Undefined
            /\ sfBase' = [id \in DOMAIN sfBase |->
                             IF /\ ~Has(pulsations, id)
                                /\ \E i \in 1..Len(selected) : selected[i].id = id
                             THEN <<(CHOOSE q \in {selected[i] : i \in 1..Len(selected)} :
                                        q.id = id).size>>
                             ELSE sfBase[id]]
            /\ sfLast' = [op |-> "processBeat", strength |-> strength,
                          config |-> selection,
                          intensity |-> cfg.pulsationIntensity,
                          adjustedStrength |-> adjustedStrength,
                          selected |-> selected]
            /\ UNCHANGED <<maxConcurrentPulsations, ctxProps, sfVariant,
                           sfParticles, sfDecaying, sfNow, sfFramed>>

\* the animation frame of this instant runs updatePulsations
Frame ==
    /\ ~sfFramed
    /\ \E r \in {FrameOutcome(sfVariant, sfParticles, sfDecaying, pulsations, sfNow)} :
          /\ sfParticles' = r.particles
          /\ sfDecaying' = r.decaying
          /\ pulsations' = r.pulsations
    /\ sfFramed' = TRUE
    /\ pmCall' = [op |-> "frame", particleId |-> "", currentTime |-> sfNow]
    /\ pmBefore' = pulsations
    /\ pmRet' = Undefined
    /\ sfLast' = StarStep("frame")
    /\ UNCHANGED <<maxConcurrentPulsations, ctxProps, sfVariant, sfNow, sfBase>>

\* time passes to the next frame
Advance ==
    /\ sfNow + 100 \in StarTimes
    /\ sfNow' = sfNow + 100
    /\ sfFramed' = FALSE
    /\ sfLast' = StarStep("advance")
    /\ UNCHANGED <<pmVars, ctxProps, sfVariant, sfParticles, sfDecaying, sfBase>>

----------------------------------------------------------------------------
(* FakeBeatDetector *)

\* constructor(bpm = 120)
DefaultBpm == 120
\* new FakeBeatDetector(100) in useFakeBeatDetection
HookBpm == 100

\* the detector as constructed
Constructed(bpm) ==
    [bpm |-> bpm, isRunning |-> FALSE, intervalId |-> Null, callbacks |-> <<>>]

\* the detector and the timers of the host
FakeWorld == [detector |-> fake, timers |-> timers]

\* the id window.setInterval returns: one that no live timer has
NextTimerId(f) ==
    CHOOSE i \in 1..(Cardinality(f.timers) + 1) :
        /\ \A t \in f.timers : t.id # i
        /\ \A j \in 1..(i - 1) : \E t \in f.timers : t.id = j

\* start()
FakeStart(f) ==
    IF f.detector.isRunning THEN f
    ELSE LET id == NextTimerId(f)
         IN  [f EXCEPT !.detector.isRunning = TRUE,
                       !.detector.intervalId = <<id>>,
                       !.timers = @ \cup {[id |-> id,
                                           intervalMs |-> Rat(60000, f.detector.bpm)]}]

\* a stop() that leaves the interval timer in place
FakeStopFlagOnly(f) == [f EXCEPT !.detector.isRunning = FALSE]

\* stop()
FakeStop(f) ==
    [f EXCEPT !.timers = IF f.detector.intervalId # Null
                         THEN {t \in @ : t.id # f.detector.intervalId[1]}
                         ELSE @,
              !.detector.intervalId = Null,
              !.detector.isRunning = FALSE]

\* setBPM(bpm)
FakeSetBPM(f, bpm) ==
    LET g == [f EXCEPT !.detector.bpm = bpm]
    IN  IF f.detector.isRunning THEN FakeStart(FakeStop(g)) ELSE g

\* the body of callback c in an interval tick
FakeInvoke(f, c, deviant, behaviour, bpm) ==
    IF c # deviant \/ behaviour = "return" THEN f
    ELSE IF behaviour = "stop" THEN FakeStop(f)
    ELSE IF behaviour = "start" THEN FakeStart(f)
    ELSE FakeSetBPM(f, bpm)

\* this.callbacks.forEach(callback => try { callback(strength) } catch { log })
\* from position pos of the Set on
RECURSIVE FakeForEach(_, _, _, _, _)
FakeForEach(f, pos, deviant, behaviour, bpm) ==
    IF pos > Len(f.detector.callbacks) THEN f
    ELSE FakeForEach(FakeInvoke(f, f.detector.callbacks[pos], deviant, behaviour, bpm),
                     pos + 1, deviant, behaviour, bpm)

\* a FakeBeatDetector step that is not an interval tick
FakeStep(op) ==
    [op |-> op, runningBefore |-> fake.isRunning, timersBefore |-> timers,
     strength |-> Null, invoked |-> <<>>, events |-> 0]

SetFake(f) ==
    /\ fake' = f.detector
    /\ timers' = f.timers

FBInit ==
    /\ fake \in {Constructed(DefaultBpm), Constructed(HookBpm)}
    /\ timers = {}
    /\ fbLast = [op |-> "constructor", runningBefore |-> FALSE, timersBefore |-> {},
                 strength |-> Null, invoked |-> <<>>, events |-> 0]

FBStart ==
    /\ SetFake(FakeStart(FakeWorld))
    /\ fbLast' = FakeStep("start")

FBStop ==
    /\ SetFake(FakeStop(FakeWorld))
    /\ fbLast' = FakeStep("stop")

FBSetBPM(bpm) ==
    /\ SetFake(FakeSetBPM(FakeWorld, bpm))
    /\ fbLast' = FakeStep("setBPM")

\* onBeat(callback)
FBOnBeat(callback) ==
    /\ fake' = [fake EXCEPT !.callbacks = SetAdd(@, callback)]
    /\ fbLast' = FakeStep("onBeat")
    /\ UNCHANGED timers

\* the function onBeat returned is called
FBUnsubscribe(callback) ==
    /\ IndexOf(fake.callbacks, callback) # 0
    /\ fake' = [fake EXCEPT !.callbacks = SetDelete(@, callback)]
    /\ fbLast' = FakeStep("unsubscribe")
    /\ UNCHANGED timers

\* the host runs the callback of the live interval timer id
FBTick(id, strength, deviant, behaviour, bpm) ==
    /\ \E t \in timers : t.id = id
    /\ SetFake(FakeForEach(FakeWorld, 1, deviant, behaviour, bpm))
    /\ fbLast' = [op |-> "tick", runningBefore |-> fake.isRunning,
                  timersBefore |-> timers, strength |-> <<strength>>,
                  invoked |-> fake.callbacks, events |-> 0]

----------------------------------------------------------------------------
(* MusicDisc *)

\* the tempos of the tracks loaded, out of TRACK_BPM_MAP
Tracks == {92, 107, 148}

\* the component as mounted
Mounted ==
    [isPlaying |-> FALSE, currentTrack |-> Null, element |-> "idle",
     resumable |-> FALSE, error |-> ""]

\* MusicDisc, the promises of its audio element and its beat generator
Player == [disc |-> disc, plays |-> plays, beat |-> FakeWorld]

\* the catch handlers of the pending promises that the audio element
\* rejects when it is paused, loads another src or fails: the one of
\* playTrack sets isPlaying to false, the one of toggle only reports
Rejected(m) ==
    [m EXCEPT !.plays = {},
              !.disc.isPlaying =
                  IF \E q \in m.plays : q.kind = "track" THEN FALSE ELSE @,
              !.disc.error =
                  IF \E q \in m.plays : q.kind = "track" THEN "Failed to play"
                  ELSE IF m.plays # {} THEN "Resume failed" ELSE @]

\* playTrack(track): a new src, then audio.play()
PlayTrack(m, bpm) ==
    [Rejected(m) EXCEPT !.plays = {[kind |-> "track", bpm |-> bpm]},
                        !.disc.element = "loading",
                        !.disc.resumable = FALSE]

\* the tracks playRandom chooses from
Candidates(d) ==
    IF d.currentTrack = Null THEN Tracks ELSE Tracks \ {d.currentTrack[1]}

\* toggle with isPlaying true: pause
Pause(m) ==
    [Rejected(m) EXCEPT !.disc.element = "paused",
                        !.disc.isPlaying = FALSE,
                        !.beat = FakeStop(@)]

\* toggle with isPlaying false and a track begun: audio.play()
Resume(m) ==
    [m EXCEPT !.plays = @ \cup {[kind |-> "resume", bpm |-> 0]},
              !.disc.element = IF @ = "playing" THEN @ ELSE "loading"]

\* the then-handler of a play() promise
Fulfilled(m, q) ==
    [m EXCEPT !.plays = @ \ {q},
              !.disc.element = "playing",
              !.disc.resumable = TRUE,
              !.disc.isPlaying = TRUE,
              !.disc.error = "",
              !.disc.currentTrack = IF q.kind = "track" THEN <<q.bpm>> ELSE @,
              !.beat = IF q.kind = "track" THEN FakeStart(FakeSetBPM(@, q.bpm))
                       ELSE FakeStart(@)]

\* the catch-handler of a play() promise
Failed(m, q) ==
    [m EXCEPT !.plays = @ \ {q},
              !.disc.element = IF m.plays = {q} /\ @ = "loading" THEN "paused" ELSE @,
              !.disc.isPlaying = IF q.kind = "track" THEN FALSE ELSE @,
              !.disc.error =
                  IF q.kind = "track" THEN "Failed to play" ELSE "Resume failed"]

\* handleError
AudioError(m) ==
    [Rejected(m) EXCEPT !.disc.element = "idle",
                        !.disc.isPlaying = FALSE,
                        !.disc.error = "Failed to load audio",
                        !.beat = FakeStop(@)]

SetPlayer(m) ==
    /\ disc' = m.disc
    /\ plays' = m.plays
    /\ SetFake(m.beat)

\* MusicDisc mounts; the hook constructs the detector and subscribes its
\* forwarder, to which MusicDisc subscribes the dispatcher of 'musicbeat'
MDInit ==
    /\ disc = Mounted
    /\ plays = {}
    /\ fake = [Constructed(HookBpm) EXCEPT !.callbacks = <<"forward">>]
    /\ timers = {}
    /\ fbLast = [op |-> "mount", runningBefore |-> FALSE, timersBefore |-> {},
                 strength |-> Null, invoked |-> <<>>, events |-> 0]

\* the play button: toggle
Toggle ==
    /\ \/ /\ disc.isPlaying
          /\ SetPlayer(Pause(Player))
       \/ /\ ~disc.isPlaying /\ disc.resumable
          /\ SetPlayer(Resume(Player))
       \/ /\ ~disc.isPlaying /\ ~disc.resumable
          /\ \E bpm \in Candidates(disc) : SetPlayer(PlayTrack(Player, bpm))
    /\ fbLast' = FakeStep("toggle")

\* the skip button, rendered while isPlaying: skip
Skip ==
    /\ disc.isPlaying
    /\ \E bpm \in Candidates(disc) :
           SetPlayer(PlayTrack([Player EXCEPT !.beat = FakeStop(@)], bpm))
    /\ fbLast' = FakeStep("skip")

\* the track ends: handleEnded
HandleEnded ==
    /\ disc.element = "playing"
    /\ \E bpm \in Candidates(disc) : SetPlayer(PlayTrack(Player, bpm))
    /\ fbLast' = FakeStep("ended")

\* the audio element reports an error: handleError
HandleError ==
    /\ disc.element \in {"loading", "playing"}
    /\ SetPlayer(AudioError(Player))
    /\ fbLast' = FakeStep("error")

\* a play() promise settles
Settle(q, fulfilled) ==
    /\ q \in plays
    /\ SetPlayer(IF fulfilled THEN Fulfilled(Player, q) ELSE Failed(Player, q))
    /\ fbLast' = FakeStep(IF fulfilled THEN "played" ELSE "play failed")

\* the interval timer id fires: the forwarder runs the hook's callbacks, and
\* MusicDisc's dispatches one 'musicbeat'
Beat(id, strength) ==
    /\ \E t \in timers : t.id = id
    /\ fbLast' = [op |-> "tick", runningBefore |-> fake.isRunning,
                  timersBefore |-> timers, strength |-> <<strength>>,
                  invoked |-> fake.callbacks, events |-> Len(fake.callbacks)]
    /\ UNCHANGED <<fake, timers, disc, plays>>

----------------------------------------------------------------------------
(* Specifications: one per component, the other component idle *)

AAIdle ==
    /\ provider = MountedProvider(TRUE)
    /\ frames = {}
    /\ mounted = TRUE
    /\ audioPaused = TRUE
    /\ now = 0
    /\ subscribed = {}
    /\ stopped = FALSE
    /\ aaLast = [op |-> "mount", sampled |-> FALSE, faulted |-> FALSE,
                 detected |-> FALSE, strength |-> Null,
                 invoked |-> <<>>, thrower |-> "", subscribedBefore |-> {},
                 stoppedBefore |-> FALSE]
    /\ aaTwin = NoTwin

SPIdle == pmArgs = NoArgs

GSIdle == bdView = NoView

MDIdle ==
    /\ disc = Mounted
    /\ plays = {}

FBIdle ==
    /\ fake = Constructed(HookBpm)
    /\ timers = {}
    /\ fbLast = FakeStep("constructor")

SFIdle ==
    /\ ctxProps = [pulsationIntensity |-> RInt(1), selectionPercentage |-> Rat(1, 10)]
    /\ sfVariant = 1
    /\ sfParticles = <<>>
    /\ sfDecaying = <<>>
    /\ sfNow = 0
    /\ sfFramed = FALSE
    /\ sfBase = <<>>
    /\ sfLast = StarStep("mount")

PMIdle ==
    /\ pulsations = <<>>
    /\ maxConcurrentPulsations = 1
    /\ pmCall = [op |-> "constructor", particleId |-> "", currentTime |-> 0]
    /\ pmBefore = <<>>
    /\ pmRet = Undefined

CEIdle ==
    /\ ceData = <<>>
    /\ ceEnergy = RInt(0)
    /\ cePrevData = <<>>
    /\ cePrevEnergy = RInt(0)

SSIdle ==
    /\ ssParticles = <<>>
    /\ ssBeatStrength = RInt(0)
    /\ ssConfig = [minSelectionPercent |-> Rat(1, 20),
                   maxSelectionPercent |-> Rat(3, 20), sizeWeightExponent |-> 2]
    /\ ssCalled = FALSE
    /\ ssSelected = <<>>
    /\ ssDraws = <<>>

BDIdle ==
    /\ historySize = 1
    /\ thresholdMultiplier = RInt(1)
    /\ debounceMs = 2
    /\ state = ConstructorState
    /\ bdCall = [op |-> "constructor", energy |-> RInt(0), timestamp |-> 0]
    /\ bdRet = Null
    /\ arrivals = <<>>
    /\ beats = <<>>
    /\ fresh = ConstructorState
    /\ freshRet = Null
    /\ reused = FALSE

PMStep ==
    \/ \E id \in ParticleIds, s \in BeatStrengths, z \in Sizes, t \in Times :
           StartPulsation(id, s, z, t) /\ UNCHANGED exceptPM
    \/ \E t \in Times : UpdatePulsations(t) /\ UNCHANGED exceptPM
    \/ \E t \in Times : Cleanup(t) /\ UNCHANGED exceptPM
    \/ \E id \in ParticleIds : GetCurrentScale(id) /\ UNCHANGED exceptPM
    \/ GetActivePulsationCount /\ UNCHANGED exceptPM
    \/ \E id \in ParticleIds : IsPulsating(id) /\ UNCHANGED exceptPM
    \/ PMReset /\ UNCHANGED exceptPM

BDStep ==
    \/ \E f \in Snapshots, t \in Timestamps : DetectBeat(f, t) /\ UNCHANGED exceptBD
    \/ \E e \in Energies : UpdateHistory(e) /\ UNCHANGED exceptBD
    \/ BDReset /\ UNCHANGED exceptBD

\* the PulsationManager under arbitrary calls
InitPM == PMInit /\ BDIdle /\ CEIdle /\ SSIdle /\ AAIdle /\ SFIdle /\ SPIdle /\ GSIdle /\ FBIdle
    /\ MDIdle

SpecPM == InitPM /\ [][PMStep]_vars

\* the BeatDetector under arbitrary calls
InitBD == BDInit /\ PMIdle /\ CEIdle /\ SSIdle /\ AAIdle /\ SFIdle /\ SPIdle /\ GSIdle /\ FBIdle
    /\ MDIdle

SpecBD == InitBD /\ [][BDStep]_vars

CEStep ==
    \E f \in EnergySnapshots :
        CalcEnergy(f) /\ UNCHANGED exceptCE

\* calculateEnergy under arbitrary snapshots
InitCE == CEInit /\ PMIdle /\ BDIdle /\ SSIdle /\ AAIdle /\ SFIdle /\ SPIdle /\ GSIdle /\ FBIdle
    /\ MDIdle

SSStep == SelectStars /\ UNCHANGED exceptSS

\* selectStars under arbitrary arguments and random outcomes
InitSS == SSInit /\ PMIdle /\ BDIdle /\ CEIdle /\ AAIdle /\ SFIdle /\ SPIdle /\ GSIdle /\ FBIdle
    /\ MDIdle

SpecSS == InitSS /\ [][SSStep]_vars

\* what a provider step leaves alone (it may start a pulsation)
exceptAA == <<bdVars, ceVars, ssVars, sfVars, pmArgs, bdView, fbVars, mdVars>>

AAStep ==
    \/ \E c \in Callbacks : OnBeat(c) /\ UNCHANGED exceptAA
    \/ \E c \in Callbacks : Unsubscribe(c) /\ UNCHANGED exceptAA
    \/ \E o \in RegisterOutcomes : Register(o) /\ UNCHANGED exceptAA
    \/ Unregister /\ UNCHANGED exceptAA
    \/ Unmount /\ UNCHANGED exceptAA
    \/ \E b \in BOOLEAN : SetPaused(b) /\ UNCHANGED exceptAA
    \/ \E id \in 1..3, f \in AnalyserSnapshots, fault \in BOOLEAN, d \in Deviations :
           Tick(id, f, fault, d.deviant, d.behaviour) /\ UNCHANGED exceptAA

\* the provider and StarfieldBackground's listener under arbitrary calls,
\* listeners and audio
InitAA == AAInit /\ BDIdle /\ CEIdle /\ SSIdle /\ SFIdle /\ SPIdle /\ GSIdle /\ FBIdle
    /\ MDIdle

SpecAA == InitAA /\ [][AAStep]_vars

REStep ==
    \/ \E c \in Callbacks : OnBeat(c) /\ UNCHANGED exceptAA
    \/ \E o \in RegisterOutcomes : Register(o) /\ UNCHANGED exceptAA
    \/ Unregister /\ UNCHANGED exceptAA
    \/ Unmount /\ UNCHANGED exceptAA
    \/ \E b \in BOOLEAN : SetPaused(b) /\ UNCHANGED exceptAA
    \/ \E id \in 1..(MaxTicks + 2), f \in AnalyserSnapshots, d \in Reentries :
           Tick(id, f, FALSE, d.deviant, d.behaviour) /\ UNCHANGED exceptAA

\* the provider with listeners that call registerAudioElement when notified
SpecRE == InitAA /\ [][REStep]_vars

SpecCE == InitCE /\ [][CEStep]_vars

\* what a StarfieldBackground step leaves alone (it starts and cleans up
\* pulsations)
exceptSF == <<bdVars, ceVars, ssVars, aaVars, pmArgs, bdView, fbVars, mdVars>>

SFStep ==
    \/ \E s \in ListenerStrengths : ProcessBeat(s) /\ UNCHANGED exceptSF
    \/ Frame /\ UNCHANGED exceptSF
    \/ Advance /\ UNCHANGED exceptSF

SPStep ==
    \/ \E id \in WideIds, b \in WideStrengths, z \in WideSizes, t \in Times :
           StartRecorded(id, b, z, t)
           /\ UNCHANGED <<bdVars, ceVars, ssVars, aaVars, sfVars, bdView, fbVars,
                        mdVars>>
    \/ \E t \in Times : Cleanup(t) /\ UNCHANGED exceptPM
    \/ PMReset /\ UNCHANGED exceptPM

\* what a BeatDetector call leaves alone when a state object is held
exceptGS == <<pmVars, ceVars, ssVars, aaVars, sfVars, pmArgs, fbVars, mdVars>>

GSStep ==
    \/ \E f \in HeldSnapshots, t \in HeldTimestamps :
           DetectBeat(f, t) /\ UNCHANGED exceptBD
    \/ BDReset /\ bdView' = Detached(bdView, state) /\ UNCHANGED exceptGS
    \/ GetState /\ UNCHANGED exceptGS
    \/ \E k \in Modifications, e \in WrittenValues : Modify(k, e) /\ UNCHANGED exceptGS

\* the BeatDetector and a caller holding what getState returned
InitGS ==
    /\ BDInit /\ thresholdMultiplier = RInt(1)
    /\ PMIdle /\ CEIdle /\ SSIdle /\ AAIdle /\ SFIdle /\ SPIdle /\ GSIdle /\ FBIdle
    /\ MDIdle

SpecGS == InitGS /\ [][GSStep]_vars

\* what a FakeBeatDetector call leaves alone
exceptFB == <<pmVars, bdVars, ceVars, ssVars, aaVars, sfVars, pmArgs, bdView, mdVars>>

FBStep ==
    \/ FBStart /\ UNCHANGED exceptFB
    \/ FBStop /\ UNCHANGED exceptFB
    \/ \E bpm \in Tempos : FBSetBPM(bpm) /\ UNCHANGED exceptFB
    \/ \E c \in FakeCallbacks : FBOnBeat(c) /\ UNCHANGED exceptFB
    \/ \E c \in FakeCallbacks : FBUnsubscribe(c) /\ UNCHANGED exceptFB
    \/ \E id \in 1..2, z \in FakeStrengths, c \in FakeCallbacks,
          b \in FakeBehaviours, bpm \in Tempos :
           FBTick(id, z, c, b, bpm) /\ UNCHANGED exceptFB

\* the FakeBeatDetector under arbitrary calls, its callbacks calling it too
InitFB ==
    /\ FBInit
    /\ PMIdle /\ BDIdle /\ CEIdle /\ SSIdle /\ AAIdle /\ SFIdle /\ SPIdle /\ GSIdle
    /\ MDIdle

SpecFB == InitFB /\ [][FBStep]_vars

\* what a MusicDisc step leaves alone
exceptMD == <<pmVars, bdVars, ceVars, ssVars, aaVars, sfVars, pmArgs, bdView>>

MDStep ==
    \/ Toggle /\ UNCHANGED exceptMD
    \/ Skip /\ UNCHANGED exceptMD
    \/ HandleEnded /\ UNCHANGED exceptMD
    \/ HandleError /\ UNCHANGED exceptMD
    \/ \E q \in plays, f \in BOOLEAN : Settle(q, f) /\ UNCHANGED exceptMD
    \/ \E id \in 1..2, z \in FakeStrengths : Beat(id, z) /\ UNCHANGED exceptMD

\* MusicDisc under arbitrary clicks, audio events and play() outcomes
InitMD ==
    /\ MDInit
    /\ PMIdle /\ BDIdle /\ CEIdle /\ SSIdle /\ AAIdle /\ SFIdle /\ SPIdle /\ GSIdle

SpecMD == InitMD /\ [][MDStep]_vars

\* startPulsation under arguments in and out of range
InitSP == PMInit /\ BDIdle /\ CEIdle /\ SSIdle /\ AAIdle /\ SFIdle /\ SPIdle /\ GSIdle /\ FBIdle
    /\ MDIdle

SpecSP == InitSP /\ [][SPStep]_vars

\* StarfieldBackground under arbitrary beats and frames
InitSF == SFInit /\ BDIdle /\ CEIdle /\ SSIdle /\ AAIdle /\ SPIdle /\ GSIdle /\ FBIdle
    /\ MDIdle

SpecSF == InitSF /\ [][SFStep]_vars

\* every component under arbitrary calls
Init == PMInit /\ BDInit /\ CEInit /\ SSInit /\ AAIdle /\ SFIdle /\ SPIdle /\ GSIdle /\ FBIdle
    /\ MDIdle

Next ==
    PMStep \/ BDStep \/ CEStep \/ SSStep \/ AAStep \/ SFStep \/ SPStep \/ GSStep
    \/ REStep \/ FBStep \/ MDStep

Spec == Init /\ [][Next]_vars

----------------------------------------------------------------------------
(* PulsationManager: restart and the concurrency cap *)

\* the last call was startPulsation for an id that was present
RestartCall == pmCall.op = "startPulsation" /\ Has(pmBefore, pmCall.particleId)

\* the last call was startPulsation for an id that was absent, the map
\* holding exactly maxConcurrentPulsations entries
StartAtCapCall ==
    /\ pmCall.op = "startPulsation"
    /\ ~Has(pmBefore, pmCall.particleId)
    /\ Len(pmBefore) = maxConcurrentPulsations

C2_CountWithinCap == Len(pulsations) <= maxConcurrentPulsations

\* C3: startPulsation for an absent id on a map that holds exactly
\* maxConcurrentPulsations entries leaves exactly that many entries: an entry
\* that had the smallest startTime is gone, the new id is present, and every
\* other entry is unchanged.
C3_EvictsOldestAtCap ==
    StartAtCapCall =>
        /\ Len(pulsations) = maxConcurrentPulsations
        /\ Has(pulsations, pmCall.particleId)
        /\ \E i \in 1..Len(pmBefore) :
              /\ \A j \in 1..Len(pmBefore) :
                     pmBefore[i].startTime <= pmBefore[j].startTime
              /\ ~Has(pulsations, pmBefore[i].particleId)
              /\ \A j \in 1..Len(pmBefore) :
                     j # i => /\ Has(pulsations, pmBefore[j].particleId)
                              /\ Get(pulsations, pmBefore[j].particleId) = pmBefore[j]

----------------------------------------------------------------------------
(* BeatDetector: debounce, cold start, strength, history and statistics *)

\* the last call was detectBeat
DetectCall == bdCall.op = "detectBeat"

\* the last call was detectBeat and it returned a strength
Emitted == DetectCall /\ bdRet # Null

\* the last call was the first call since construction or reset, a detectBeat
FirstDetectCall == DetectCall /\ Len(arrivals) = 1

\* every energy since construction or reset was zero
AllZero == \A i \in 1..Len(arrivals) : arrivals[i].num = 0

\* the threshold of the last detectBeat call, from the statistics it left
LastThreshold ==
    Threshold(state.averageEnergy, state.varianceEnergy, thresholdMultiplier)

\* C4: any two beats emitted without a reset in between are at least
\* debounceMs apart, in call order.
C4_BeatsDebounced ==
    \A i, j \in 1..Len(beats) : i < j => beats[j] - beats[i] >= debounceMs

\* C4 happens: two beats exactly debounceMs apart
C4_Witness == Len(beats) >= 2 /\ beats[2] - beats[1] = debounceMs

\* C5 as stated: the first detectBeat call on a new or reset detector returns
\* null, whatever the energy, the timestamp and the thresholdMultiplier.
C5_FirstCallSilent == FirstDetectCall => bdRet = Null

\* C5 amended: with a thresholdMultiplier of at least 1, the first detectBeat
\* call on a new or reset detector returns null.
C5_FirstCallSilentFromOne ==
    (FirstDetectCall /\ RGe(thresholdMultiplier, RInt(1))) => bdRet = Null

\* C5 happens: a loud first call past the debounce window, after a reset
C5_Witness ==
    /\ FirstDetectCall
    /\ RGe(thresholdMultiplier, RInt(1))
    /\ bdCall.energy = RInt(1)
    /\ bdCall.timestamp >= debounceMs
    /\ reused

\* C6: while every energy since construction or reset is zero, no beat has
\* been emitted and detectBeat returns null.
C6_SilentWhileAllZero == AllZero => (beats = <<>> /\ bdRet = Null)

\* C6 happens: a second all-zero detectBeat call past the debounce window
C6_Witness ==
    /\ DetectCall
    /\ AllZero
    /\ Len(arrivals) >= 2
    /\ bdCall.timestamp >= debounceMs

C8_HistoryIsRecentWindow ==
    LET n == Len(arrivals)
        k == IF n < historySize THEN n ELSE historySize
    IN  /\ Len(state.energyHistory) <= historySize
        /\ state.energyHistory = SubSeq(arrivals, n - k + 1, n)

\* C8 happens: an energy was evicted and the window differs from the first arrivals
C8_Witness ==
    /\ Len(arrivals) > historySize
    /\ historySize >= 2
    /\ state.energyHistory # SubSeq(arrivals, 1, historySize)

RECURSIVE SumSquares(_)
SumSquares(history) ==
    IF history = <<>> THEN RInt(0)
    ELSE RAdd(RMul(history[1], history[1]), SumSquares(Tail(history)))

\* the population variance of a non-empty history: E[h^2] - E[h]^2
PopulationVariance(history) ==
    LET mean == RDiv(RSum(history), RInt(Len(history)))
    IN  RSub(RDiv(SumSquares(history), RInt(Len(history))), RMul(mean, mean))

\* C9: after every detectBeat or updateHistory call averageEnergy is the mean
\* of the current history and varianceEnergy its population standard deviation
\* (the root taken to within 1/SqrtScale).
C9_StatisticsMatchHistory ==
    state.energyHistory # <<>> =>
        LET sd == state.varianceEnergy
            next == RAdd(sd, Rat(1, SqrtScale))
            variance == PopulationVariance(state.energyHistory)
        IN  /\ state.averageEnergy =
                   RDiv(RSum(state.energyHistory), RInt(Len(state.energyHistory)))
            /\ RGe(sd, RInt(0))
            /\ RLe(RMul(sd, sd), variance)
            /\ RGt(RMul(next, next), variance)

\* C9 happens: a debounced detectBeat call that evicted an energy and left a
\* history of unequal energies
C9_Witness ==
    /\ DetectCall
    /\ beats # <<>>
    /\ bdCall.timestamp - state.lastBeatTime < debounceMs
    /\ bdCall.timestamp # state.lastBeatTime
    /\ Len(arrivals) > historySize
    /\ RGt(state.varianceEnergy, RInt(0))

\* C10: a detector that was used and then reset is in the state of a newly
\* constructed one and returns what the new one returns, call for call.
C10_ResetIsFresh == state = fresh /\ bdRet = freshRet

\* C10 happens: a beat emitted after the reset of a detector that had emitted beats
C10_Witness == reused /\ Emitted

----------------------------------------------------------------------------
(* PulsationManager: updatePulsations, the queries and cleanup *)

\* now - startTime of an entry at the last call
Elapsed(s) == pmCall.currentTime - s.startTime

\* 0 <= now - startTime < duration at the last call
Due(s) == Elapsed(s) >= 0 /\ RLt(RInt(Elapsed(s)), s.duration)

\* now - startTime >= duration at the last call
Over(s) == RGe(RInt(Elapsed(s)), s.duration)

\* C14: updatePulsations(now) returns a map whose keys are exactly the ids of the
\* stored entries with 0 <= now - startTime < duration and leaves the stored
\* map as it was; getActivePulsationCount, isPulsating and getCurrentScale
\* leave it as it was too
C14_UpdateReportsDueEntries ==
    /\ pmCall.op = "updatePulsations" =>
          /\ DOMAIN pmRet = {pmBefore[i].particleId :
                                i \in {j \in 1..Len(pmBefore) : Due(pmBefore[j])}}
          /\ pulsations = pmBefore
    /\ pmCall.op \in {"getActivePulsationCount", "isPulsating", "getCurrentScale"} =>
          pulsations = pmBefore

\* updatePulsations reported one entry and omitted one that is not yet due
C14_Witness ==
    /\ pmCall.op = "updatePulsations"
    /\ DOMAIN pmRet # {}
    /\ \E i \in 1..Len(pmBefore) : Elapsed(pmBefore[i]) < 0

\* C15: for every entry in progress updatePulsations returns the scale
\* 1 + (peakScale - 1) * sin(pi * elapsed / duration), which is 1 at elapsed 0,
\* peakScale at elapsed = duration / 2, and within [1, peakScale]
C15_ScaleFollowsSine ==
    pmCall.op = "updatePulsations" =>
        \A i \in 1..Len(pmBefore) :
            LET s == pmBefore[i]
                scale == pmRet[s.particleId]
                progress == RDiv(RInt(Elapsed(s)), s.duration)
            IN  Due(s) =>
                  /\ scale = RAdd(RInt(1),
                                  RMul(RSub(s.peakScale, RInt(1)), SinPi(progress)))
                  /\ Elapsed(s) = 0 => scale = RInt(1)
                  /\ RInt(2 * Elapsed(s)) = s.duration => scale = s.peakScale
                  /\ RLe(RInt(1), scale) /\ RLe(scale, s.peakScale)

\* an entry was reported at its midpoint, at its peak scale
C15_Witness ==
    /\ pmCall.op = "updatePulsations"
    /\ \E i \in 1..Len(pmBefore) :
          /\ RInt(2 * Elapsed(pmBefore[i])) = pmBefore[i].duration
          /\ pmRet[pmBefore[i].particleId] = pmBefore[i].peakScale
          /\ RGt(pmBefore[i].peakScale, RInt(1))

\* C16: cleanup(now) removes every stored entry with now - startTime >= duration
\* and no other; the entries in progress and those not yet due remain, unchanged
C16_CleanupRemovesElapsed ==
    pmCall.op = "cleanup" =>
        /\ \A i \in 1..Len(pmBefore) :
              IF Over(pmBefore[i])
              THEN ~Has(pulsations, pmBefore[i].particleId)
              ELSE \E j \in 1..Len(pulsations) : pulsations[j] = pmBefore[i]
        /\ \A j \in 1..Len(pulsations) :
              \E i \in 1..Len(pmBefore) : pulsations[j] = pmBefore[i]
        /\ Len(pulsations) <= Len(pmBefore)

\* cleanup removed an elapsed entry and kept one that is in progress
C16_Witness ==
    /\ pmCall.op = "cleanup"
    /\ \E i \in 1..Len(pmBefore) : Over(pmBefore[i])
    /\ \E j \in 1..Len(pulsations) : Due(pulsations[j])

----------------------------------------------------------------------------
(* calculateEnergy *)

\* how many leading bins of a snapshot of length n are averaged
BassRange(n) == IF n < 11 THEN n ELSE 11

\* the sum of the samples data[1..n], added from the last one down
RECURSIVE SumSamples(_, _)
SumSamples(data, n) == IF n = 0 THEN 0 ELSE data[n] + SumSamples(data, n - 1)

\* every sample of the snapshot is v
AllSamples(data, v) == \A i \in 1..Len(data) : data[i] = v

\* two snapshots agree on every bin below index 11
SameBassBins(f, g) ==
    /\ BassRange(Len(f)) = BassRange(Len(g))
    /\ \A i \in 1..BassRange(Len(f)) : f[i] = g[i]

\* C11: calculateEnergy returns 0 for an empty snapshot and otherwise the sum of
\* the first min(11, length) samples over min(11, length) * 255; it is 0 for an
\* all-zero snapshot, 1 for an all-255 one, within [0,1], and two snapshots that
\* differ only at index 11 or higher have the same energy
C11_EnergyOfBassBins ==
    /\ Len(ceData) = 0 => ceEnergy = RInt(0)
    /\ Len(ceData) > 0 =>
          ceEnergy = Rat(SumSamples(ceData, BassRange(Len(ceData))),
                         BassRange(Len(ceData)) * 255)
    /\ AllSamples(ceData, 0) => ceEnergy = RInt(0)
    /\ (Len(ceData) > 0 /\ AllSamples(ceData, 255)) => ceEnergy = RInt(1)
    /\ RLe(RInt(0), ceEnergy) /\ RLe(ceEnergy, RInt(1))
    /\ SameBassBins(ceData, cePrevData) => ceEnergy = cePrevEnergy

\* two snapshots of twelve bins that differ at index 11 only, the energy being
\* strictly between 0 and 1
C11_Witness ==
    /\ Len(ceData) = 12 /\ Len(cePrevData) = 12
    /\ ceData[12] # cePrevData[12]
    /\ SameBassBins(ceData, cePrevData)
    /\ RLt(RInt(0), ceEnergy) /\ RLt(ceEnergy, RInt(1))

----------------------------------------------------------------------------
(* selectStars *)

\* the input elements that appear in the returned array
SelectedInputs == {i \in 1..Len(ssParticles) :
                     \E k \in 1..Len(ssSelected) : ssSelected[k] = ssParticles[i]}

\* C12: selectStars returns only elements of the input, none of them twice, and
\* no more elements than the input contains
C12_SelectionWithinInput ==
    ssCalled =>
        /\ \A k \in 1..Len(ssSelected) :
               \E i \in 1..Len(ssParticles) : ssSelected[k] = ssParticles[i]
        /\ \A k, l \in 1..Len(ssSelected) : k # l => ssSelected[k] # ssSelected[l]
        /\ Len(ssSelected) <= Len(ssParticles)

\* two stars were drawn from three on the weighted path
C12_Witness ==
    /\ ssCalled
    /\ Len(ssParticles) = 3 /\ Len(ssSelected) = 2
    /\ ~ZeroTotalWeight(ssParticles, ssConfig)

\* the fraction of the input to select: min + (max - min) * clamp(beatStrength, 0, 1)
Fraction ==
    LET clamped == IF RLt(ssBeatStrength, RInt(0)) THEN RInt(0)
                   ELSE IF RGt(ssBeatStrength, RInt(1)) THEN RInt(1)
                   ELSE ssBeatStrength
    IN  RAdd(ssConfig.minSelectionPercent,
             RMul(RSub(ssConfig.maxSelectionPercent, ssConfig.minSelectionPercent),
                  clamped))

\* min(n, max(1, floor(n * fraction)))
ExpectedCount ==
    LET n == Len(ssParticles)
        scaled == RMul(RInt(n), Fraction)
        floor == CHOOSE f \in 0..(2 * n) :
                     RLe(RInt(f), scaled) /\ RLt(scaled, RInt(f + 1))
        atLeastOne == IF floor < 1 THEN 1 ELSE floor
    IN  IF atLeastOne < n THEN atLeastOne ELSE n

\* C13: selectStars returns an empty list for empty input and exactly
\* min(n, max(1, floor(n * fraction))) entities for n > 0 entities; a single
\* entity is always returned, on the weighted and on the zero-total-weight path
C13_SelectionCount ==
    ssCalled =>
        /\ Len(ssParticles) = 0 => ssSelected = <<>>
        /\ Len(ssParticles) > 0 => Len(ssSelected) = ExpectedCount
        /\ Len(ssParticles) = 1 => ssSelected = ssParticles

\* a single star of weight zero was selected by the fallback
C13_Witness ==
    /\ ssCalled
    /\ Len(ssParticles) = 1 /\ ssSelected = ssParticles
    /\ ZeroTotalWeight(ssParticles, ssConfig)

----------------------------------------------------------------------------
(* AudioAnalysisProvider: listeners and stopping *)

\* how often the last tick invoked callback c
Invocations(c) ==
    Cardinality({k \in 1..Len(aaLast.invoked) : aaLast.invoked[k].callback = c})

\* the last step was a tick that emitted a beat
BeatTick == aaLast.op = "tick" /\ aaLast.detected /\ aaLast.strength # Null

\* the tick has requested the next frame
NextTickScheduled ==
    /\ provider.animationFrameId # Null
    /\ provider.animationFrameId[1] \in frames

\* C17: when a beat is emitted and a listener throws, every other registered
\* listener is still invoked with the same strength in that tick, the loop has
\* scheduled its next tick, and the detector state is what it would be had the
\* listener returned
C17_ThrowingListenerIsolated ==
    (BeatTick /\ aaLast.thrower # "") =>
        /\ \A i \in 1..Len(provider.beatCallbacks) :
              LET c == provider.beatCallbacks[i]
              IN  /\ Invocations(c) = 1
                  /\ \A k \in 1..Len(aaLast.invoked) :
                        aaLast.invoked[k].strength = aaLast.strength[1]
        /\ NextTickScheduled
        /\ provider.beatDetector = aaTwin.beatDetector
        /\ provider.beatDetector # Null
        /\ provider.beatDetector[1].lastBeatTime = now
        /\ aaLast.invoked = aaTwin.invoked
        /\ frames = aaTwin.frames

\* the listener subscribed first threw and the one subscribed after it was
\* notified
C17_Witness ==
    /\ BeatTick
    /\ Len(aaLast.invoked) = 2
    /\ aaLast.thrower = aaLast.invoked[1].callback
    /\ aaLast.invoked[2].callback # aaLast.thrower

\* C18: in each analysis tick every callback that was registered through
\* onBeat and whose unsubscribe function has not been called is invoked exactly
\* once, with the emitted strength, when detectBeat returns non-null, and none
\* is invoked when it returns null; a callback is never invoked after its
\* unsubscribe function has been called
C18_SubscribersNotifiedOnce ==
    aaLast.op = "tick" =>
        /\ BeatTick =>
              \A c \in aaLast.subscribedBefore \cap subscribed :
                  /\ Invocations(c) = 1
                  /\ \A k \in 1..Len(aaLast.invoked) :
                        aaLast.invoked[k].strength = aaLast.strength[1]
        /\ aaLast.strength = Null => aaLast.invoked = <<>>
        /\ \A k \in 1..Len(aaLast.invoked) : aaLast.invoked[k].subscribed

\* C19: after unregisterAudioElement has returned or the provider has
\* unmounted, and until registerAudioElement is called again, no frame callback
\* is registered and no tick runs beat detection or notifies a listener
C19_StoppedLoopStaysStopped ==
    /\ stopped => frames = {}
    /\ (aaLast.op = "tick" /\ aaLast.stoppedBefore) =>
          ~aaLast.detected /\ aaLast.invoked = <<>>

\* C20: after unregisterAudioElement the Beat Detector has no adaptation
\* history and the Pulsation Scheduler has no active entry
C20_StopDropsAllState ==
    aaLast.op = "unregisterAudioElement" =>
        /\ provider.beatDetector # Null =>
              provider.beatDetector[1].energyHistory = <<>>
        /\ Len(pulsations) = 0

\* C21: when sampling the frequency source throws in an analysis tick, the
\* tick emits no beat and notifies no listener, the audio element stays
\* registered and the next tick is scheduled
C21_TickFailureKeepsLoop ==
    (aaLast.op = "tick" /\ aaLast.faulted) =>
        /\ aaLast.strength = Null
        /\ aaLast.invoked = <<>>
        /\ provider.audioElement
        /\ NextTickScheduled

\* C22: a tick that finds the registered audio element paused or ended reads
\* no frequency snapshot, does not call detectBeat and leaves the detector as
\* it was, notifies no listener, raises no error and schedules the next tick
C22_PausedTickIsInert ==
    [][(now' # now /\ Live(provider) /\ audioPaused) =>
          /\ ~aaLast'.sampled
          /\ ~aaLast'.detected
          /\ provider'.beatDetector = provider.beatDetector
          /\ aaLast'.invoked = <<>>
          /\ provider'.error = provider.error
          /\ provider'.animationFrameId # Null
          /\ provider'.animationFrameId[1] \in frames']_vars

\* a paused tick of a provider that has a listener and a detector with history
C22_Witness ==
    /\ aaLast.op = "tick"
    /\ audioPaused
    /\ Live(provider)
    /\ ~aaLast.sampled
    /\ Len(provider.beatDetector[1].energyHistory) > 0
    /\ Len(provider.beatCallbacks) > 0
    /\ NextTickScheduled

----------------------------------------------------------------------------
(* StarfieldBackground: configuration, cleanup and restoring sizes *)

\* 0 <= x <= 1
InUnit(x) == RLe(RInt(0), x) /\ RLe(x, RInt(1))

\* C23: whatever pulsationIntensity and selectionPercentage the provider is
\* given, the minimum and the maximum selection fraction the listener hands to
\* selectStars are within [0,1] and so is the factor it multiplies the beat
\* strength by
C23_ConfigurationWithinUnit ==
    sfLast.op = "processBeat" =>
        /\ InUnit(sfLast.config.minSelectionPercent)
        /\ InUnit(sfLast.config.maxSelectionPercent)
        /\ InUnit(sfLast.intensity)

\* C24: a frame at a time now leaves no entry in the scheduler that started at
\* t0 with duration d and now >= t0 + d, so a later beat can start a new
\* pulsation for its particle
C24_FrameRemovesCompleted ==
    sfLast.op = "frame" =>
        \A i \in 1..Len(pulsations) : ~Complete(pulsations[i], sfNow)

\* no pulsation is in progress now or later unless a beat starts one, and no
\* particle is tracked as decaying: no frame to come changes a size
Settled ==
    /\ \A i \in 1..Len(pulsations) : Complete(pulsations[i], sfNow)
    /\ DOMAIN sfDecaying = {}

\* C25: once the frames have nothing left to do for the pulsations that
\* completed, every particle that pulsated has exactly the size it had before
\* its pulsation started
C25_SizeRestoredAfterPulsation ==
    (sfLast.op = "frame" /\ Settled) =>
        \A i \in 1..Len(sfParticles) :
            sfBase[sfParticles[i].id] # <<>> =>
                sfParticles[i].size = sfBase[sfParticles[i].id][1]

----------------------------------------------------------------------------
(* BeatDetector: the beat decision and what a silent call changes *)

\* the step is a detectBeat call
DetectStep == bdCall'.op = "detectBeat" /\ Len(arrivals') = Len(arrivals) + 1

\* the mean of a non-empty history
Mean(history) == RDiv(RSum(history), RInt(Len(history)))

\* history is the last min(historySize, n + 1) energies of before with energy
\* appended
Appended(before, energy, history) ==
    LET all == Append(before, energy)
        k == IF Len(all) < historySize THEN Len(all) ELSE historySize
    IN  history = SubSeq(all, Len(all) - k + 1, Len(all))

\* C26: detectBeat returns non-null exactly when, with the energy appended to
\* the history, timestamp - lastBeatTime >= debounceMs, energy > mean *
\* thresholdMultiplier + 0.5 * stddev and mean > 0
C26_BeatIffDueLoudAndPrimed ==
    [][DetectStep =>
          LET mean == Mean(state'.energyHistory)
              stddev == state'.varianceEnergy
          IN  (bdRet' # Null) <=>
                  /\ bdCall'.timestamp - state.lastBeatTime >= debounceMs
                  /\ RGt(bdCall'.energy,
                         RAdd(RMul(mean, thresholdMultiplier),
                              RMul(Rat(1, 2), stddev)))
                  /\ RGt(mean, RInt(0))]_vars

\* a second beat, emitted over a history of unequal energies
C26_Witness ==
    /\ Emitted
    /\ Len(beats) >= 2
    /\ RGt(state.varianceEnergy, RInt(0))

\* C27: a detectBeat call that returns null leaves lastBeatTime unchanged, and
\* one rejected by the debounce check has still appended its energy to the
\* history and recomputed the mean and the standard deviation
C27_SilentCallKeepsLastBeat ==
    [][(DetectStep /\ bdRet' = Null) =>
          /\ state'.lastBeatTime = state.lastBeatTime
          /\ bdCall'.timestamp - state.lastBeatTime < debounceMs =>
                LET sd == state'.varianceEnergy
                    next == RAdd(sd, Rat(1, SqrtScale))
                    variance == PopulationVariance(state'.energyHistory)
                IN  /\ Appended(state.energyHistory, bdCall'.energy,
                                state'.energyHistory)
                    /\ state'.averageEnergy = Mean(state'.energyHistory)
                    /\ RGe(sd, RInt(0))
                    /\ RLe(RMul(sd, sd), variance)
                    /\ RGt(RMul(next, next), variance)]_vars

\* a call rejected by the debounce check alone: its energy is above the
\* threshold and it changed the mean
C27_Witness ==
    /\ DetectCall
    /\ bdRet = Null
    /\ beats # <<>>
    /\ bdCall.timestamp - state.lastBeatTime < debounceMs
    /\ RGt(bdCall.energy, LastThreshold)
    /\ RGt(state.averageEnergy, RInt(0))
    /\ Len(arrivals) >= 2
    /\ arrivals[Len(arrivals)] # arrivals[Len(arrivals) - 1]

----------------------------------------------------------------------------
(* selectStars: the weighted draw and the fallback *)

\* size^exponent for a size above 0, otherwise 0
WeightOf(particle) ==
    IF RGt(particle.size, RInt(0))
    THEN Pow(particle.size, ssConfig.sizeWeightExponent)
    ELSE RInt(0)

\* the entities left when draw k begins, in input order
Remaining(k) ==
    SelectSeq(ssParticles, LAMBDA q : \A l \in 1..(k - 1) : ssSelected[l] # q)

\* the weight of the first j entities of rest together
RECURSIVE Cumulative(_, _)
Cumulative(rest, j) ==
    IF j = 0 THEN RInt(0) ELSE RAdd(Cumulative(rest, j - 1), WeightOf(rest[j]))

\* the entities of size 2 and 4
TwoAndFour == <<[id |-> "a", size |-> RInt(2)], [id |-> "b", size |-> RInt(4)]>>

\* C28: in each weighted draw with a random value r in [0, currentTotalWeight)
\* the entity chosen is the first one left, in input order, whose cumulative
\* weight exceeds r, the weight being size^exponent for a size above 0 and 0
\* otherwise; of the sizes 2 and 4 with exponent 2 the second is chosen for
\* every r from 4 up, 16 of 20
C28_DrawPicksOwnerOfInterval ==
    (ssCalled /\ RGt(Cumulative(ssParticles, Len(ssParticles)), RInt(0))) =>
        /\ Len(ssDraws) = Len(ssSelected)
        /\ \A k \in 1..Len(ssDraws) :
              LET rest == Remaining(k)
                  total == Cumulative(rest, Len(rest))
                  r == RMul(ssDraws[k], total)
              IN  RGt(total, RInt(0)) =>
                      \E j \in 1..Len(rest) :
                          /\ ssSelected[k] = rest[j]
                          /\ RGt(Cumulative(rest, j), r)
                          /\ \A i \in 1..(j - 1) : RLe(Cumulative(rest, i), r)
        /\ (ssParticles = TwoAndFour /\ ssConfig.sizeWeightExponent = 2) =>
              /\ Cumulative(ssParticles, 1) = RInt(4)
              /\ Cumulative(ssParticles, 2) = RInt(20)
              /\ ssSelected[1].id = "b" <=> RGe(RMul(ssDraws[1], RInt(20)), RInt(4))

\* of the sizes 2 and 4 the second was drawn first, with r = 5, and the first
\* after it
C28_Witness ==
    /\ ssCalled
    /\ ssParticles = TwoAndFour
    /\ ssConfig.sizeWeightExponent = 2
    /\ Len(ssSelected) = 2
    /\ ssDraws[1] = Rat(1, 4)
    /\ ssSelected[1].id = "b"

\* every entity has a size of 0 or less
AllWeightless == \A i \in 1..Len(ssParticles) : RLe(ssParticles[i].size, RInt(0))

\* C29: when every input entity has a size of 0 or less, selectStars draws
\* nothing by weight and returns min(n, max(1, floor(n * fraction))) entities
\* of the input, none of them twice
C29_FallbackSelectsSameCount ==
    (ssCalled /\ Len(ssParticles) > 0 /\ AllWeightless) =>
        /\ ssDraws = <<>>
        /\ Len(ssSelected) = ExpectedCount
        /\ \A k \in 1..Len(ssSelected) :
               \E i \in 1..Len(ssParticles) : ssSelected[k] = ssParticles[i]
        /\ \A k, l \in 1..Len(ssSelected) : k # l => ssSelected[k] # ssSelected[l]

\* two of three entities of sizes 0 and below were selected, the first of the
\* input not among them
C29_Witness ==
    /\ ssCalled
    /\ AllWeightless
    /\ Len(ssParticles) = 3
    /\ \E i \in 1..3 : RLt(ssParticles[i].size, RInt(0))
    /\ Len(ssSelected) = 2
    /\ \A k \in 1..2 : ssSelected[k] # ssParticles[1]

----------------------------------------------------------------------------
(* PulsationManager: what an entry holds *)

\* beatStrength brought into [0,1]
Clamped(beatStrength) ==
    IF RLt(beatStrength, RInt(0)) THEN RInt(0)
    ELSE IF RGt(beatStrength, RInt(1)) THEN RInt(1)
    ELSE beatStrength

\* C30: every stored entry has peakScale = 1.5 + 0.5 * s and duration =
\* 200 + 200 * s for s the beatStrength of the call that created it, brought
\* into [0,1], so peakScale is within [1.5, 2] and duration within [200, 400];
\* its startTime and originalSize are the arguments of that call
C30_EntryDerivedFromArguments ==
    \A i \in 1..Len(pulsations) :
        LET e == pulsations[i]
            call == pmArgs[e.particleId]
        IN  /\ call # <<>>
            /\ e.peakScale =
                   RAdd(Rat(3, 2), RMul(Rat(1, 2), Clamped(call[1].beatStrength)))
            /\ e.duration =
                   RAdd(RInt(200), RMul(RInt(200), Clamped(call[1].beatStrength)))
            /\ RLe(Rat(3, 2), e.peakScale) /\ RLe(e.peakScale, RInt(2))
            /\ RLe(RInt(200), e.duration) /\ RLe(e.duration, RInt(400))
            /\ e.startTime = call[1].currentTime
            /\ e.originalSize = call[1].originalSize

\* two entries are stored at once, one created with a beat strength above 1
\* and one with a beat strength inside [0,1]
C30_Witness ==
    /\ Len(pulsations) = 2
    /\ pmArgs[pulsations[1].particleId][1].beatStrength = Rat(3, 2)
    /\ pmArgs[pulsations[2].particleId][1].beatStrength = Rat(1, 2)
    /\ pulsations[2].duration = RInt(300)
    /\ pulsations[1].originalSize # pulsations[2].originalSize
    /\ pulsations[1].startTime # pulsations[2].startTime

----------------------------------------------------------------------------
(* AudioAnalysisProvider: isAnalyzing and the frames of the loop *)

\* C31: while the provider is mounted, isAnalyzing is true exactly when an
\* audio element is registered and the analysis loop has a frame callback
\* scheduled, whatever registrations (succeeding or failing part-way),
\* unregistrations and loop errors came before
C31_AnalyzingIffLoopScheduled ==
    mounted =>
        (provider.isAnalyzing <=> (provider.audioElement /\ frames # {}))

----------------------------------------------------------------------------
(* BeatDetector: the object getState returns *)

\* C32: getState() returns a copy that prevents external modification:
\* whatever the holder of the returned object does to it and to its
\* energyHistory array, the detector's history and statistics, and what its
\* detectBeat calls return, are those of a detector that received the same
\* calls and whose state nobody holds
C32_ReturnedStateIsDetached ==
    bdView.taken => (state = fresh /\ bdRet = freshRet)

----------------------------------------------------------------------------
(* AudioAnalysisProvider: one analysis loop *)

\* C33: at any moment at most one frame callback of the analysis loop is
\* registered with the frame scheduler, whatever registrations (repeated
\* without unregistering too), ticks, unregistrations and unmount came before:
\* there are never two analysis loops rescheduling themselves
C33_AtMostOneFrameScheduled == Cardinality(frames) <= 1

----------------------------------------------------------------------------
(* PulsationManager: entries whose duration has elapsed *)

\* the duration of entry e has elapsed at time t
DurationElapsed(e, t) == RLe(RAdd(RInt(e.startTime), e.duration), RInt(t))

\* an entry of map m that no other entry precedes in age has the empty id
OldestIsFalsy(m) ==
    \E j \in 1..Len(m) :
        /\ m[j].particleId = ""
        /\ \A k \in 1..Len(m) : m[j].startTime <= m[k].startTime

----------------------------------------------------------------------------
(* AudioAnalysisProvider: the listeners across unregisterAudioElement *)

\* the callbacks in the Set
Listening(callbacks) == {callbacks[k] : k \in 1..Len(callbacks)}

\* C35: unregisterAudioElement removes every registered beat listener, and
\* registerAudioElement brings none back: a tick notifies only callbacks
\* that are in the Set when it starts or that subscribe during it, so a
\* callback registered before the unregister receives no beat after a later
\* registerAudioElement unless it subscribes again
C35_UnregisterDropsListeners ==
    [][/\ aaLast'.op = "unregisterAudioElement" => provider'.beatCallbacks = <<>>
       /\ aaLast'.op = "registerAudioElement"
          => provider'.beatCallbacks = provider.beatCallbacks
       /\ aaLast'.op = "tick"
          => \A k \in 1..Len(aaLast'.invoked) :
                 aaLast'.invoked[k].callback \in
                     Listening(provider.beatCallbacks)
                     \cup Listening(provider'.beatCallbacks)]_vars

\* a beat tick after unregisterAudioElement and a later registerAudioElement
\* notifies nobody although starfield subscribed and never unsubscribed
C35_Witness ==
    /\ aaLast.op = "tick"
    /\ aaLast.strength # Null
    /\ ~aaLast.stoppedBefore
    /\ "starfield" \in aaLast.subscribedBefore
    /\ aaLast.invoked = <<>>

----------------------------------------------------------------------------
(* FakeBeatDetector: isRunning and the interval timer *)

C36_StoppedWhenNotPlaying ==
    ~disc.isPlaying =>
        /\ ~fake.isRunning
        /\ timers = {}
        /\ ~(fbLast.op = "tick" /\ fbLast.events > 0)


----------------------------------------------------------------------------
(* BeatDetector: the debounce window of a detector that has emitted no beat *)

\* the beats emitted since construction or reset before the last call
EarlierBeats ==
    IF Emitted THEN SubSeq(beats, 1, Len(beats) - 1) ELSE beats

\* C38: on a new or reset BeatDetector that has emitted no beat (lastBeatTime
\* is 0), a detectBeat call with a timestamp below debounceMs returns null
\* whatever the energies are: the window is measured from time 0.
C38_NoBeatBeforeDebounceMs ==
    (DetectCall /\ EarlierBeats = <<>> /\ bdCall.timestamp < debounceMs)
        => (bdRet = Null /\ state.lastBeatTime = 0)

\* C38 happens: on a detector that was reset after it had emitted beats, a
\* call below debounceMs whose energy is above the threshold, the average
\* being positive, returns null
C38_Witness ==
    /\ DetectCall
    /\ reused
    /\ beats = <<>>
    /\ bdCall.timestamp < debounceMs
    /\ bdCall.timestamp > 0
    /\ RGt(bdCall.energy, LastThreshold)
    /\ RGt(state.averageEnergy, RInt(0))
    /\ bdRet = Null


----------------------------------------------------------------------------
(* selectStars: entities of weight 0 in the weighted draw *)

\* an entity of rest has a weight above 0
SomeWeighted(rest) == \E j \in 1..Len(rest) : RGt(WeightOf(rest[j]), RInt(0))

\* C39: in the weighted path of selectStars no draw selects an entity of
\* weight 0 (size <= 0) while an entity of positive weight is left among the
\* candidates; entities of weight 0 are selected only after every entity of
\* positive weight has been taken.
C39_WeightlessDrawnLast ==
    (ssCalled /\ SomeWeighted(ssParticles)) =>
        \A k \in 1..Len(ssSelected) :
            SomeWeighted(Remaining(k)) => RGt(WeightOf(ssSelected[k]), RInt(0))

\* C39 happens: the input begins with an entity of weight 0, the first draw
\* has a random value of 0 and selects an entity of positive weight, and an
\* entity of weight 0 is selected after the last of positive weight
C39_Witness ==
    /\ ssCalled
    /\ Len(ssParticles) = 3
    /\ WeightOf(ssParticles[1]) = RInt(0)
    /\ SomeWeighted(ssParticles)
    /\ ssDraws # <<>>
    /\ ssDraws[1] = RInt(0)
    /\ Len(ssSelected) >= 2
    /\ RGt(WeightOf(ssSelected[1]), RInt(0))
    /\ WeightOf(ssSelected[Len(ssSelected)]) = RInt(0)

====
